---- MODULE Spec2Model ----
(***************************************************************************)
(* A model of topologicpy's Cell class (src/Cell.py) and of methods of its *)
(* Vector, Honeybee and Plotly classes (src/Vector.py, src/Honeybee.py,    *)
(* src/Plotly.py).  The library is stateless: a public method is one call  *)
(* that runs to completion.  The state of the model is thus the last call: *)
(* which method ran (op), what it was given (args), how it ended (ret) and *)
(* what it produced (out).  The external kernel (topologic) is modelled by *)
(* what the call sites rely on: a construction is accepted or rejected,    *)
(* and a rejection either raises or yields a null handle.                  *)
(*                                                                         *)
(* Lengths are integers in units of half a model unit where a method       *)
(* halves an extent (so that x*0.5 stays an integer); angles are integers  *)
(* in hundredths of a degree.                                              *)
(***************************************************************************)
EXTENDS Integers, Sequences, FiniteSets, TLC

VARIABLES op, args, ret, out

vars == <<op, args, ret, out>>

(***************************************************************************)
(* Bounds of the model.                                                    *)
(***************************************************************************)
MaxWires == 3
MaxFaceFail == 5

(***************************************************************************)
(* Small helpers.                                                          *)
(***************************************************************************)
Range(s) == {s[i] : i \in 1..Len(s)}

RECURSIVE Flatten(_)
Flatten(ss) == IF ss = <<>> THEN <<>> ELSE Head(ss) \o Flatten(Tail(ss))

NoArgs == [none |-> TRUE]
NoOut == [none |-> TRUE]

Init ==
    /\ op = "init"
    /\ args = NoArgs
    /\ ret = "init"
    /\ out = NoOut

(***************************************************************************)
(* Kernel handles.  A wire is a closed loop of vertices; vertices that are *)
(* equal are coincident.  NotAWire is an argument of the wrong kind, an    *)
(* object that is no kernel handle at all.                                 *)
(***************************************************************************)
Wire(vs) == [kind |-> "Wire", vs |-> vs]
NotAWire == [kind |-> "Str", vs |-> <<>>]

\* wire.Edges(None, edges): edge j runs from vertex j to the next vertex of the loop.
WireEdges(w) == [j \in 1..Len(w.vs) |-> <<w.vs[j], w.vs[(j % Len(w.vs)) + 1]>>]

\* topologic.Edge.ByStartVertexEndVertex: rejected when the end points coincide;
\* the rejection raises or returns a null handle (ch, the kernel's failure channel).
EdgeByStartVertexEndVertex(u, v, ch) == IF u # v THEN "ok" ELSE ch

\* A face as the list of the edges of its boundary.
Face(edges) == [kind |-> "Face", edges |-> edges]

\* topologic.Face.ByExternalBoundary(topologic.Wire.ByEdges(edges)), the k-th face
\* construction of the call: the kernel rejects (raises on) the constructions in ff.
FaceRejected(k, ff) == k \in ff

\* Face.Triangulate(face): a fan of triangles over the vertices of the face.
Triangulate(vs) ==
    [i \in 1..(Len(vs) - 2) |->
        Face(<<<<vs[1], vs[i + 1]>>, <<vs[i + 1], vs[i + 2]>>, <<vs[i + 2], vs[1]>>>>)]

(***************************************************************************)
(* Cell.ByWires.  L is the running state of the call: the faces collected  *)
(* so far, the number of face constructions attempted, and st = "ok"       *)
(* while the call runs, "raise" once an exception escapes, "none" once the *)
(* call has returned None.                                                 *)
(***************************************************************************)
Loft(faces, n, st) == [faces |-> faces, n |-> n, st |-> st]

\* An unguarded face construction appended to faces.
AppendFace(L, edges, ff) ==
    IF L.st # "ok" THEN L
    ELSE IF FaceRejected(L.n + 1, ff) THEN Loft(L.faces, L.n + 1, "raise")
    ELSE Loft(Append(L.faces, Face(edges)), L.n + 1, "ok")

\* A face construction inside try/except: a rejection is swallowed.
TryAppendFace(L, edges, ff) ==
    IF L.st # "ok" THEN L
    ELSE IF FaceRejected(L.n + 1, ff) THEN Loft(L.faces, L.n + 1, "ok")
    ELSE Loft(Append(L.faces, Face(edges)), L.n + 1, "ok")

\* BridgeTriangulated without the inner try of lines 284-288 and 292-296: a
\* second side edge that raises ends the call.
BridgeTriangulated_InnerUnguarded(L, e1, e2, ch, ff) ==
    LET r3 == EdgeByStartVertexEndVertex(e1[1], e2[1], ch)
        r4 == EdgeByStartVertexEndVertex(e1[2], e2[2], ch)
        r5 == EdgeByStartVertexEndVertex(e1[1], e2[2], ch)
        e3 == <<e1[1], e2[1]>>
        e4 == <<e1[2], e2[2]>>
        e5 == <<e1[1], e2[2]>>
        L1 == IF r3 = "raise" /\ r4 = "ok" THEN TryAppendFace(L, <<e1, e2, e4>>, ff) ELSE L
        L2 == IF r4 = "raise" /\ r3 = "ok" THEN TryAppendFace(L1, <<e1, e2, e3>>, ff) ELSE L1
    IN  IF r3 = "raise" /\ r4 = "raise" THEN Loft(L.faces, L.n, "raise")
        ELSE IF r3 = "ok" /\ r4 = "ok"
        THEN IF r5 # "ok" THEN Loft(L2.faces, L2.n, "raise")
             ELSE AppendFace(AppendFace(L2, <<e1, e5, e4>>, ff), <<e2, e5, e3>>, ff)
        ELSE L2

\* Lines 276-300: one matched edge pair, triangulated.
BridgeTriangulated(L, e1, e2, ch, ff) ==
    LET r3 == EdgeByStartVertexEndVertex(e1[1], e2[1], ch)
        r4 == EdgeByStartVertexEndVertex(e1[2], e2[2], ch)
        r5 == EdgeByStartVertexEndVertex(e1[1], e2[2], ch)
        e3 == <<e1[1], e2[1]>>
        e4 == <<e1[2], e2[2]>>
        e5 == <<e1[1], e2[2]>>
        \* 281-288: e3 raised, so e4 is built and the face e1,e2,e4 is tried
        L1 == IF r3 = "raise" /\ r4 = "ok" THEN TryAppendFace(L, <<e1, e2, e4>>, ff) ELSE L
        \* 289-296: e4 raised, so e3 is built and the face e1,e2,e3 is tried
        L2 == IF r4 = "raise" /\ r3 = "ok" THEN TryAppendFace(L1, <<e1, e2, e3>>, ff) ELSE L1
    IN  IF r3 = "ok" /\ r4 = "ok"
        THEN \* 297-300: nothing here is guarded
             IF r5 # "ok" THEN Loft(L2.faces, L2.n, "raise")
             ELSE AppendFace(AppendFace(L2, <<e1, e5, e4>>, ff), <<e2, e5, e3>>, ff)
        ELSE L2

\* BridgeQuad with the two assemblies of lines 322-325 in the other order.
BridgeQuad_FallbackFirst(L, e1, e2, ch, ff) ==
    LET r3 == EdgeByStartVertexEndVertex(e1[1], e2[1], ch)
        r4 == EdgeByStartVertexEndVertex(e1[2], e2[2], ch)
        e3 == <<e1[1], e2[1]>>
        e4 == <<e1[2], e2[2]>>
    IN  IF r3 = "ok" /\ r4 = "ok"
        THEN IF FaceRejected(L.n + 1, ff)
             THEN AppendFace(Loft(L.faces, L.n + 1, "ok"), <<e1, e4, e2, e3>>, ff)
             ELSE Loft(Append(L.faces, Face(<<e1, e3, e2, e4>>)), L.n + 1, "ok")
        ELSE IF r3 = "ok" THEN AppendFace(L, <<e1, e3, e2>>, ff)
        ELSE IF r4 = "ok" THEN AppendFace(L, <<e1, e4, e2>>, ff)
        ELSE L

\* Lines 302-329: one matched edge pair, untriangulated.
BridgeQuad(L, e1, e2, ch, ff) ==
    LET r3 == EdgeByStartVertexEndVertex(e1[1], e2[1], ch)
        r4 == EdgeByStartVertexEndVertex(e1[2], e2[2], ch)
        e3 == <<e1[1], e2[1]>>
        e4 == <<e1[2], e2[2]>>
    IN  IF r3 = "ok" /\ r4 = "ok"
        THEN \* 321-325: the first assembly is guarded, the fallback is not
             IF FaceRejected(L.n + 1, ff)
             THEN AppendFace(Loft(L.faces, L.n + 1, "ok"), <<e1, e3, e2, e4>>, ff)
             ELSE Loft(Append(L.faces, Face(<<e1, e4, e2, e3>>)), L.n + 1, "ok")
        ELSE IF r3 = "ok" THEN AppendFace(L, <<e1, e3, e2>>, ff)
        ELSE IF r4 = "ok" THEN AppendFace(L, <<e1, e4, e2>>, ff)
        ELSE L

\* BridgePair with the triangulate flag dropped on the way (the default, True, used).
BridgePair_AlwaysTriangulated(L, e1, e2, triangulate, ch, ff) ==
    BridgeTriangulated(L, e1, e2, ch, ff)

BridgePair(L, e1, e2, triangulate, ch, ff) ==
    IF triangulate THEN BridgeTriangulated(L, e1, e2, ch, ff)
    ELSE BridgeQuad(L, e1, e2, ch, ff)

\* The loop over j of lines 276 and 302.
RECURSIVE BridgeEdges(_, _, _, _, _, _, _)
BridgeEdges(L, w1_edges, w2_edges, j, triangulate, ch, ff) ==
    IF L.st # "ok" \/ j > Len(w1_edges) THEN L
    ELSE BridgeEdges(BridgePair(L, w1_edges[j], w2_edges[j], triangulate, ch, ff),
                     w1_edges, w2_edges, j + 1, triangulate, ch, ff)

\* Lines 273-274: the edge counts of a consecutive pair differ.
EdgeCountsDiffer(w1_edges, w2_edges) == Len(w1_edges) # Len(w2_edges)

\* The loop over i of line 265: the pairs (wires[i], wires[i+1]).
RECURSIVE LoftPairs(_, _, _, _, _, _)
LoftPairs(L, wires, i, triangulate, ch, ff) ==
    IF L.st # "ok" \/ i > Len(wires) - 1 THEN L
    ELSE IF wires[i].kind # "Wire" \/ wires[i + 1].kind # "Wire"
         THEN Loft(L.faces, L.n, "raise")
    ELSE LET w1_edges == WireEdges(wires[i])
             w2_edges == WireEdges(wires[i + 1])
         IN  IF EdgeCountsDiffer(w1_edges, w2_edges) THEN Loft(L.faces, L.n, "none")
             ELSE LoftPairs(BridgeEdges(L, w1_edges, w2_edges, 1, triangulate, ch, ff),
                            wires, i + 1, triangulate, ch, ff)

\* Lines 257-259: the cap faces, from wires[0], wires[-1] and, when closing, wires[0].
CapWires(wires, close) ==
    <<wires[1], wires[Len(wires)]>> \o (IF close THEN <<wires[1]>> ELSE <<>>)

RECURSIVE CapFaces(_, _, _, _)
CapFaces(L, caps, k, ff) ==
    IF L.st # "ok" \/ k > Len(caps) THEN L
    ELSE IF caps[k].kind # "Wire" THEN Loft(L.faces, L.n, "raise")
    ELSE CapFaces(AppendFace(L, WireEdges(caps[k]), ff), caps, k + 1, ff)

\* Lines 260-264: every cap replaced by its triangles.
TriangulateCaps(L, caps) ==
    IF L.st # "ok" THEN L
    ELSE Loft(Flatten([k \in 1..Len(caps) |-> Triangulate(caps[k].vs)]), L.n, "ok")

\* The faces of Cell.ByWires as handed to Cell.ByFaces (line 330), or how the
\* call ended before.
LoftFaces(wires, close, triangulate, ch, ff) ==
    IF wires = <<>> THEN Loft(<<>>, 0, "raise")
    ELSE LET caps == CapWires(wires, close)
             L0 == CapFaces(Loft(<<>>, 0, "ok"), caps, 1, ff)
             L1 == IF triangulate THEN TriangulateCaps(L0, caps) ELSE L0
         IN  LoftPairs(L1, wires, 1, triangulate, ch, ff)

\* The undirected edges of a face list, and in how many faces each lies.
Undirected(e) == {e[1], e[2]}
FaceEdgeSet(f) == {Undirected(f.edges[i]) : i \in 1..Len(f.edges)}
FacesWith(faces, e) == Cardinality({i \in 1..Len(faces) : e \in FaceEdgeSet(faces[i])})
AllEdges(faces) == UNION {FaceEdgeSet(faces[i]) : i \in 1..Len(faces)}
FaceVertices(faces) == UNION AllEdges(faces)

\* topologic.Cell.ByFaces: no cell unless every edge is shared by two faces at
\* least; whether the kernel then sews the faces is the kernel's (sew).
KernelCellByFaces(faces, sew) ==
    IF sew /\ faces # <<>> /\ \A e \in AllEdges(faces) : FacesWith(faces, e) >= 2
    THEN "Cell" ELSE "None"

\* Cell.ByFaces (lines 92-99).
ByFaces(faces, sew) ==
    LET faceList == SelectSeq(faces, LAMBDA x : x.kind = "Face")
    IN  KernelCellByFaces(faceList, sew)

\* Cell.ByWires: [ret, faces].
ByWires(wires, close, triangulate, ch, ff, sew) ==
    LET L == LoftFaces(wires, close, triangulate, ch, ff)
    IN  IF L.st = "raise" THEN [ret |-> "Raise", faces |-> L.faces]
        ELSE IF L.st = "none" THEN [ret |-> "None", faces |-> L.faces]
        ELSE [ret |-> ByFaces(L.faces, sew), faces |-> L.faces]

(***************************************************************************)
(* The wires the loft is exercised on.                                     *)
(***************************************************************************)
WireCatalog ==
    { Wire(<<1, 2, 3>>),        \* a triangle
      Wire(<<4, 5, 6>>),        \* a triangle apart from the first
      Wire(<<1, 5, 6>>),        \* shares its first vertex with the first
      Wire(<<7, 1, 8>>),        \* its second vertex is the first's first
      Wire(<<4, 5, 6, 7>>),     \* four edges
      NotAWire }

RECURSIVE SeqsUpTo(_, _)
SeqsUpTo(S, n) ==
    IF n = 0 THEN {<<>>}
    ELSE LET shorter == SeqsUpTo(S, n - 1)
         IN  shorter \cup {Append(s, x) : s \in shorter, x \in S}

FaceFailSets == {ff \in SUBSET (1..MaxFaceFail) : Cardinality(ff) <= 2}

ByWiresCall ==
    /\ op = "init"
    /\ \E wires \in SeqsUpTo(WireCatalog, MaxWires), close \in BOOLEAN, triangulate \in BOOLEAN,
       ch \in {"raise", "null"}, ff \in FaceFailSets, sew \in BOOLEAN :
         LET r == ByWires(wires, close, triangulate, ch, ff, sew)
         IN  /\ op' = "ByWires"
             /\ args' = [wires |-> wires, close |-> close, triangulate |-> triangulate,
                         ch |-> ch, ff |-> ff, sew |-> sew]
             /\ ret' = r.ret
             /\ out' = [faces |-> r.faces]

\* A cluster of the kernel and the wires cluster.Wires(None, wires) finds in it.
Cluster(wires) == [kind |-> "Cluster", wires |-> wires]
NotACluster == [kind |-> "Str", wires |-> <<>>]

\* Cell.ByWiresCluster (lines 359-363): triangulate is not handed on, so that
\* Cell.ByWires runs with its default, True.
ByWiresCluster(cluster, close, triangulate, ch, ff, sew) ==
    IF cluster.kind # "Cluster" THEN [ret |-> "None", faces |-> <<>>]
    ELSE ByWires(cluster.wires, close, TRUE, ch, ff, sew)

MaxClusterWires == 2

Clusters ==
    {Cluster(ws) : ws \in SeqsUpTo(WireCatalog \ {NotAWire}, MaxClusterWires)}
        \cup {NotACluster}

ByWiresClusterCall ==
    /\ op = "init"
    /\ \E cluster \in Clusters, close \in BOOLEAN, triangulate \in BOOLEAN,
          ch \in {"raise", "null"}, ff \in FaceFailSets, sew \in BOOLEAN :
         LET r == ByWiresCluster(cluster, close, triangulate, ch, ff, sew)
         IN  /\ op' = "ByWiresCluster"
             /\ args' = [cluster |-> cluster, close |-> close, triangulate |-> triangulate,
                         ch |-> ch, ff |-> ff, sew |-> sew]
             /\ ret' = r.ret
             /\ out' = [faces |-> r.faces]

NextLoft == ByWiresCall \/ ByWiresClusterCall

SpecLoft == Init /\ [][NextLoft]_vars

(***************************************************************************)
(* The loop over the matched edge pairs (lines 276-300 and 302-329) on its  *)
(* own: one or two pairs (e1 of wire A, e2 of wire B), bridged from an     *)
(* empty face list.                                                        *)
(***************************************************************************)
MaxPairs == 2

EdgesOfA == {<<1, 2>>, <<2, 3>>}
\* Edges of B that share both, one or none of their end points with the edge of A
\* they are matched with, or end where it starts.
EdgesOfB == {<<1, 2>>, <<1, 3>>, <<3, 2>>, <<3, 4>>, <<3, 1>>, <<2, 3>>, <<4, 3>>}

BridgeEdgesCall ==
    /\ op = "init"
    /\ \E w1_edges \in SeqsUpTo(EdgesOfA, MaxPairs) \ {<<>>},
          w2_edges \in SeqsUpTo(EdgesOfB, MaxPairs) \ {<<>>},
          triangulate \in BOOLEAN, ch \in {"raise", "null"}, ff \in FaceFailSets :
         /\ Len(w1_edges) = Len(w2_edges)
         /\ LET L == BridgeEdges(Loft(<<>>, 0, "ok"), w1_edges, w2_edges, 1,
                                 triangulate, ch, ff)
            IN  /\ op' = "BridgeEdges"
                /\ args' = [w1_edges |-> w1_edges, w2_edges |-> w2_edges,
                            triangulate |-> triangulate, ch |-> ch, ff |-> ff]
                /\ ret' = L.st
                /\ out' = [faces |-> L.faces, n |-> L.n]

NextBridge == BridgeEdgesCall

SpecBridge == Init /\ [][NextBridge]_vars

(***************************************************************************)
(* Vector.Angle (src/Vector.py) and Cell.Decompose.  In Decompose lengths  *)
(* (centroid heights, the tolerance) are integers in units of 0.0001.      *)
(***************************************************************************)
Abs(x) == IF x < 0 THEN -x ELSE x

Dot(a, b) == a[1] * b[1] + a[2] * b[2] + a[3] * b[3]

CrossProduct(a, b) ==
    <<a[2] * b[3] - a[3] * b[2], a[3] * b[1] - a[1] * b[3], a[1] * b[2] - a[2] * b[1]>>

\* degrees(arctan2(sqrt(s2), c)) in hundredths of a degree, for the ratios the
\* model's vectors produce (tan = 0, 1/10, 1, sqrt 2, 10, infinite).
ArcTan2Deg(s2, c) ==
    CASE s2 = 0 /\ c >= 0 -> 0
      [] s2 = 0 /\ c < 0 -> 18000
      [] s2 > 0 /\ c = 0 -> 9000
      [] s2 > 0 /\ s2 = c * c /\ c > 0 -> 4500
      [] s2 > 0 /\ s2 = c * c /\ c < 0 -> 13500
      [] s2 > 0 /\ s2 = 100 * c * c /\ c > 0 -> 8429
      [] s2 > 0 /\ s2 = 100 * c * c /\ c < 0 -> 9571
      [] s2 > 0 /\ 100 * s2 = c * c /\ c > 0 -> 571
      [] s2 > 0 /\ 100 * s2 = c * c /\ c < 0 -> 17429
      [] s2 > 0 /\ s2 = 2 * c * c /\ c > 0 -> 5474
      [] s2 > 0 /\ s2 = 2 * c * c /\ c < 0 -> 12526

\* Vector.Angle: arctan2(|A x B|, A . B) in degrees.
Angle(vectorA, vectorB) ==
    LET x == CrossProduct(vectorA, vectorB)
    IN  ArcTan2Deg(Dot(x, x), Dot(vectorA, vectorB))

Up == <<0, 0, 1>>

\* angleCode without its final else: a face that passes no test gets no code.
angleCode_NoInclined(f, up, tiltAngle) ==
    LET ang == Angle(f.normal, up)
    IN  IF Abs(ang - 9000) < tiltAngle THEN 0
        ELSE IF Abs(ang) < tiltAngle THEN 1
        ELSE IF Abs(ang - 18000) < tiltAngle THEN 2
        ELSE 4

\* angleCode with the test of the up-facing faces before the test of the vertical.
angleCode_UpFirst(f, up, tiltAngle) ==
    LET ang == Angle(f.normal, up)
    IN  IF Abs(ang) < tiltAngle THEN 1
        ELSE IF Abs(ang - 9000) < tiltAngle THEN 0
        ELSE IF Abs(ang - 18000) < tiltAngle THEN 2
        ELSE 3

\* Decompose.angleCode (lines 666-677); tiltAngle in hundredths of a degree.
angleCode(f, up, tiltAngle) ==
    LET ang == Angle(f.normal, up)
    IN  IF Abs(ang - 9000) < tiltAngle THEN 0
        ELSE IF Abs(ang) < tiltAngle THEN 1
        ELSE IF Abs(ang - 18000) < tiltAngle THEN 2
        ELSE 3

Min(S) == CHOOSE x \in S : \A y \in S : x <= y
Max(S) == CHOOSE x \in S : \A y \in S : x >= y

\* FaceClass with the up-facing faces compared against zMax, as the down-facing are.
FaceClass_UpAgainstZMax(aFace, zMin, zMax, tiltAngle, tolerance) ==
    LET aCode == angleCode(aFace, Up, tiltAngle)
    IN  IF aCode = 0 THEN "vertical"
        ELSE IF aCode = 1
             THEN IF Abs(aFace.z - zMax) < tolerance THEN "bottomHorizontal"
                  ELSE "topHorizontal"
        ELSE IF aCode = 2
             THEN IF Abs(aFace.z - zMax) < tolerance THEN "topHorizontal"
                  ELSE "bottomHorizontal"
        ELSE IF aCode = 3 THEN "inclined"
        ELSE "none"

\* The list of the result a face is appended to (lines 706-727).
FaceClass(aFace, zMin, zMax, tiltAngle, tolerance) ==
    LET aCode == angleCode(aFace, Up, tiltAngle)
    IN  IF aCode = 0 THEN "vertical"
        ELSE IF aCode = 1
             THEN IF Abs(aFace.z - zMin) < tolerance THEN "bottomHorizontal"
                  ELSE "topHorizontal"
        ELSE IF aCode = 2
             THEN IF Abs(aFace.z - zMax) < tolerance THEN "topHorizontal"
                  ELSE "bottomHorizontal"
        ELSE IF aCode = 3 THEN "inclined"
        ELSE "none"

\* The faces appended to one list, in the order of the loop of line 705.  A face
\* is named by its position in Cell.Faces(cell).
FacesOfClass(faces, class, tiltAngle, tolerance) ==
    LET zList == {faces[i].z : i \in 1..Len(faces)}
        zMin == Min(zList)
        zMax == Max(zList)
    IN  SelectSeq([i \in 1..Len(faces) |-> i],
                  LAMBDA i : FaceClass(faces[i], zMin, zMax, tiltAngle, tolerance) = class)

\* getApertures over the faces of one list: face i carries the apertures aps.
AperturesOf(faces, list) == Flatten([k \in 1..Len(list) |-> faces[list[k]].aps])

\* Cell.Decompose (lines 687-738): [ret, d].
Decompose(cell, tiltAngle, tolerance) ==
    IF cell.kind # "Cell" THEN [ret |-> "None", d |-> NoOut]
    ELSE IF cell.faces = <<>> THEN [ret |-> "Raise", d |-> NoOut]
    ELSE LET tilt == Abs(tiltAngle)
             v == FacesOfClass(cell.faces, "vertical", tilt, tolerance)
             t == FacesOfClass(cell.faces, "topHorizontal", tilt, tolerance)
             b == FacesOfClass(cell.faces, "bottomHorizontal", tilt, tolerance)
             i == FacesOfClass(cell.faces, "inclined", tilt, tolerance)
         IN  [ret |-> "Dict",
              d |-> [verticalFaces |-> v,
                     topHorizontalFaces |-> t,
                     bottomHorizontalFaces |-> b,
                     inclinedFaces |-> i,
                     verticalApertures |-> AperturesOf(cell.faces, v),
                     topHorizontalApertures |-> AperturesOf(cell.faces, t),
                     bottomHorizontalApertures |-> AperturesOf(cell.faces, b),
                     inclinedApertures |-> AperturesOf(cell.faces, i)]]

(***************************************************************************)
(* The cells Decompose is exercised on.                                    *)
(***************************************************************************)
MaxFaces == 2

CellFace(normal, z) == [normal |-> normal, z |-> z, aps |-> <<>>]
Cell(faces) == [kind |-> "Cell", faces |-> faces]
NotACell == [kind |-> "Str", faces |-> <<>>]

\* The axis-aligned unit box centred on the origin: its faces' centroids are at
\* heights -0.5 (bottom), 0.5 (top) and 0 (sides).
UnitBox ==
    Cell(<<CellFace(<<0, 0, -1>>, -5000), CellFace(<<0, 0, 1>>, 5000),
           CellFace(<<1, 0, 0>>, 0), CellFace(<<-1, 0, 0>>, 0),
           CellFace(<<0, 1, 0>>, 0), CellFace(<<0, -1, 0>>, 0)>>)

\* A box under a hipped roof with a flat top: floor at 0, walls up to 2, the four
\* slopes of the roof at 45 degrees, and the flat top at 3.
Mansard ==
    Cell(<<CellFace(<<0, 0, -1>>, 0),
           CellFace(<<1, 0, 0>>, 10000), CellFace(<<-1, 0, 0>>, 10000),
           CellFace(<<0, 1, 0>>, 10000), CellFace(<<0, -1, 0>>, 10000),
           CellFace(<<1, 0, 1>>, 25000), CellFace(<<-1, 0, 1>>, 25000),
           CellFace(<<0, 1, 1>>, 25000), CellFace(<<0, -1, 1>>, 25000),
           CellFace(<<0, 0, 1>>, 30000)>>)

Normals ==
    { <<0, 0, 1>>, <<0, 0, -1>>, <<1, 0, 0>>, <<1, 0, 1>>, <<0, 1, -1>>,
      <<10, 0, 1>>, <<0, 1, 10>>, <<1, 0, -10>> }
CentroidHeights == {0, 3}
CellFaces == {CellFace(n, z) : n \in Normals, z \in CentroidHeights}

\* Face i of the cell given the aperture i.
WithApertures(cell) ==
    [cell EXCEPT !.faces = [i \in 1..Len(cell.faces) |-> [cell.faces[i] EXCEPT !.aps = <<i>>]]]

Cells ==
    LET plain == {UnitBox, Mansard}
                     \cup {Cell(fs) : fs \in SeqsUpTo(CellFaces, MaxFaces) \ {<<>>}}
    IN  plain \cup {WithApertures(UnitBox), WithApertures(Mansard)} \cup {NotACell}

TiltAngles == {0, 500, 1000, -1000, 4500, 10000}
Tolerances == {1, 2, 10001}

DecomposeCall ==
    /\ op = "init"
    /\ \E cell \in Cells, tiltAngle \in TiltAngles, tolerance \in Tolerances :
         LET r == Decompose(cell, tiltAngle, tolerance)
         IN  /\ op' = "Decompose"
             /\ args' = [cell |-> cell, tiltAngle |-> tiltAngle, tolerance |-> tolerance]
             /\ ret' = r.ret
             /\ out' = r.d

NextDecompose == DecomposeCall

SpecDecompose == Init /\ [][NextDecompose]_vars

(***************************************************************************)
(* The primitive constructors.  Coordinates and extents are integers in    *)
(* half units, so that x*0.5 is exact: Whole(x) is x and Half(x) is x*0.5. *)
(* A shape is the set of its corner points.                                *)
(***************************************************************************)
Whole(x) == 2 * x
Half(x) == x

Vertex(x, y, z) == [kind |-> "Vertex", x |-> Whole(x), y |-> Whole(y), z |-> Whole(z)]
None == [kind |-> "None", x |-> 0, y |-> 0, z |-> 0]
NotAVertex == [kind |-> "Str", x |-> 0, y |-> 0, z |-> 0]

\* str.lower() on the placement strings of the model.
Lower(placement) ==
    CASE placement \in {"center", "Center", "CENTER"} -> "center"
      [] placement \in {"lowerleft", "LowerLeft"} -> "lowerleft"
      [] placement \in {"bottom", "Bottom"} -> "bottom"
      [] OTHER -> placement

\* The names a method of Cell can use: the module's imports (lines 1-5) and the
\* imports of its own body.
ModuleImports == {"topologicpy", "topologic", "Wire", "Topology", "math"}
LocalImports(method) ==
    CASE method = "Cone" -> {"Vertex", "Wire", "Face", "Shell", "Cluster", "Topology"}
      [] method = "Cylinder" -> {"Vertex", "Face", "CellComplex", "Cluster", "Topology"}
      [] method = "Torus" -> {"Topology"}
      [] OTHER -> {}
InScope(name, method) == name \in ModuleImports \cup LocalImports(method)

\* "if not origin: origin = Vertex.ByCoordinates(0,0,0)" followed by the
\* isinstance test, by the kind of the origin given: "ok" with the default origin
\* ("default") or the given one ("given"), or how the call ends.
ResolveOriginKind(kind, method) ==
    IF kind = "None"
    THEN IF InScope("Vertex", method) THEN "default" ELSE "Raise"
    ELSE IF kind # "Vertex" THEN "None"
    ELSE "given"

ResolveOrigin(origin, method) ==
    LET r == ResolveOriginKind(origin.kind, method)
    IN  IF r = "default" THEN [st |-> "ok", origin |-> Vertex(0, 0, 0)]
        ELSE IF r = "given" THEN [st |-> "ok", origin |-> origin]
        ELSE IF r = "Raise" THEN [st |-> "raise", origin |-> origin]
        ELSE [st |-> "none", origin |-> origin]

\* The orientation step: phi = degrees(atan2(dy, dx)); theta = 0 when dist < 0.0001,
\* else degrees(acos(dz/dist)) = degrees(atan2(sqrt(dx^2 + dy^2), dz)).
Phi(dx, dy) == IF dy < 0 THEN -ArcTan2Deg(dy * dy, dx) ELSE ArcTan2Deg(dy * dy, dx)
\* Theta measured from the X axis: acos(dx/dist).
Theta_FromX(dx, dy, dz) ==
    LET dist2 == dx * dx + dy * dy + dz * dz
    IN  IF dist2 = 0 THEN 0 ELSE ArcTan2Deg(dy * dy + dz * dz, dx)

Theta(dx, dy, dz) ==
    LET dist2 == dx * dx + dy * dy + dz * dz
    IN  IF dist2 = 0 THEN 0 ELSE ArcTan2Deg(dx * dx + dy * dy, dz)

Orientation(origin, dir) ==
    LET dx == (origin.x + Whole(dir[1])) - origin.x
        dy == (origin.y + Whole(dir[2])) - origin.y
        dz == (origin.z + Whole(dir[3])) - origin.z
    IN  [theta |-> Theta(dx, dy, dz), phi |-> Phi(dx, dy)]

\* cos and sin of a multiple of 90 degrees (hundredths of a degree).
CosDeg(a) == CASE a = 0 -> 1 [] a \in {9000, -9000} -> 0 [] a \in {18000, -18000} -> -1
SinDeg(a) == CASE a \in {0, 18000, -18000} -> 0 [] a = 9000 -> 1 [] a = -9000 -> -1

\* topologic.TopologyUtility.Rotate(shape, origin, 0, 1, 0, angle)
RotateY(shape, origin, a) ==
    { <<origin.x + (p[1] - origin.x) * CosDeg(a) + (p[3] - origin.z) * SinDeg(a),
        p[2],
        origin.z - (p[1] - origin.x) * SinDeg(a) + (p[3] - origin.z) * CosDeg(a)>> : p \in shape }

\* topologic.TopologyUtility.Rotate(shape, origin, 0, 0, 1, angle)
RotateZ(shape, origin, a) ==
    { <<origin.x + (p[1] - origin.x) * CosDeg(a) - (p[2] - origin.y) * SinDeg(a),
        origin.y + (p[1] - origin.x) * SinDeg(a) + (p[2] - origin.y) * CosDeg(a),
        p[3]>> : p \in shape }

\* Orient with the rotation about Z applied before the rotation about Y.
Orient_ZThenY(shape, origin, dir) ==
    LET o == Orientation(origin, dir)
    IN  RotateY(RotateZ(shape, origin, o.phi), origin, o.theta)

\* The two rotations that end every primitive constructor.
Orient(shape, origin, dir) ==
    LET o == Orientation(origin, dir)
    IN  RotateZ(RotateY(shape, origin, o.theta), origin, o.phi)

\* What a primitive constructor produces.
Built(kind, pre, shape, o, planes) ==
    [ret |-> kind, pre |-> pre, shape |-> shape, theta |-> o.theta, phi |-> o.phi,
     oriented |-> TRUE, planes |-> planes]
NotBuilt(kind) ==
    [ret |-> kind, pre |-> {}, shape |-> {}, theta |-> 0, phi |-> 0, oriented |-> FALSE,
     planes |-> <<>>]

\* PrismOffsets with "center" shifting by the whole height.
PrismOffsets_WholeHeight(width, length, height, placement) ==
    IF Lower(placement) = "center" THEN <<0, 0, -Whole(height)>>
    ELSE IF Lower(placement) = "lowerleft" THEN <<Half(width), Half(length), 0>>
    ELSE <<0, 0, 0>>

\* Prism (lines 1186-1193): the offsets of the placement.
PrismOffsets(width, length, height, placement) ==
    IF Lower(placement) = "center" THEN <<0, 0, -Half(height)>>
    ELSE IF Lower(placement) = "lowerleft" THEN <<Half(width), Half(length), 0>>
    ELSE <<0, 0, 0>>

\* Prism (lines 1194-1204): the base and the top wire.
PrismWires(origin, width, length, height, off) ==
    LET x0 == origin.x - Half(width) + off[1]
        x1 == origin.x + Half(width) + off[1]
        y0 == origin.y - Half(length) + off[2]
        y1 == origin.y + Half(length) + off[2]
        zb == origin.z + off[3]
        zt == origin.z + Whole(height) + off[3]
    IN  << Wire(<< <<x0, y0, zb>>, <<x1, y0, zb>>, <<x1, y1, zb>>, <<x0, y1, zb>> >>),
           Wire(<< <<x0, y0, zt>>, <<x1, y0, zt>>, <<x1, y1, zt>>, <<x0, y1, zt>> >>) >>

\* The mean of a set of values, times n (the centroid of a box is the mean of
\* its corners).
RECURSIVE SumOf(_)
SumOf(S) == IF S = {} THEN 0 ELSE LET x == CHOOSE x \in S : TRUE IN x + SumOf(S \ {x})
Coord(shape, k) == {p[k] : p \in shape}
Extent(shape, k) == Max(Coord(shape, k)) - Min(Coord(shape, k))
Mid2(shape, k) == Max(Coord(shape, k)) + Min(Coord(shape, k))

\* CuttingPlanes with a plane for i = sides as well, on the far end of the shape.
CuttingPlanes_Inclusive(first, extent, sides) ==
    [i \in 1..sides |-> <<first * sides + Whole(extent) * i, sides>>]

\* The cutting planes of one axis (sides - 1 of them), plane i at first + extent/sides*i,
\* as <<numerator, denominator>> in half units.
CuttingPlanes(first, extent, sides) ==
    [i \in 1..(sides - 1) |-> <<first * sides + Whole(extent) * i, sides>>]

\* Prism.sliceCell (lines 1163-1180): the planes are placed from the centroid of the
\* cell, plane i at centroid + extent/sides*i - extent*0.5.
sliceCell(shape, width, length, height, uSides, vSides, wSides) ==
    [w |-> CuttingPlanes(Mid2(shape, 3) \div 2 - Half(height), height, wSides),
     u |-> CuttingPlanes(Mid2(shape, 1) \div 2 - Half(width), width, uSides),
     v |-> CuttingPlanes(Mid2(shape, 2) \div 2 - Half(length), length, vSides)]

\* What the kernel does with the constructions of one call: it accepts them
\* ("ok"), fails to make a cell of the faces and returns a null handle ("null"),
\* or raises on a construction ("raise").
KernelOutcomes == {"ok", "null", "raise"}

\* Cell.Prism (lines 1182-1225).
Prism(origin, width, length, height, sides, dir, placement, k) ==
    LET ro == ResolveOrigin(origin, "Prism")
    IN  IF ro.st = "raise" THEN NotBuilt("Raise")
        ELSE IF ro.st = "none" THEN NotBuilt("None")
        ELSE LET o == ro.origin
                 wires == PrismWires(o, width, length, height,
                                     PrismOffsets(width, length, height, placement))
                 prism == ByWires(wires, FALSE, FALSE, "raise",
                                  IF k = "raise" THEN {1} ELSE {}, k # "null")
                 pre == FaceVertices(prism.faces)
             IN  IF prism.ret = "Raise" THEN NotBuilt("Raise")
                 \* sliceCell calls cell.Centroid() on what ByWires returned
                 ELSE IF prism.ret = "None" THEN NotBuilt("Raise")
                 ELSE Built("Cell", pre, Orient(pre, o, dir), Orientation(o, dir),
                            sliceCell(pre, width, length, height, sides[1], sides[2], sides[3]))

\* Cell.Box (lines 70-71).
Box(origin, width, length, height, sides, dir, placement, k) ==
    Prism(origin, width, length, height, sides, dir, placement, k)

\* The corners of the box that bounds a shape built around an axis: a circle of
\* radius r about (cx, cy) reaches cx +- r and cy +- r (the number of sides is a
\* multiple of four).
Corners(x0, x1, y0, y1, z0, z1) == {<<x, y, z>> : x \in {x0, x1}, y \in {y0, y1}, z \in {z0, z1}}
Translate(shape, dx, dy, dz) == {<<p[1] + dx, p[2] + dy, p[3] + dz>> : p \in shape}

MaxOf(a, b) == IF a > b THEN a ELSE b

\* Cone.createCone (lines 443-464) and the test of lines 507-508.
createCone(baseRadius, topRadius, k) ==
    IF baseRadius <= 0 /\ topRadius <= 0 THEN "Raise"
    ELSE IF k = "raise" THEN "Raise"
    ELSE IF k = "null" THEN "None"
    ELSE "Cell"

\* Cell.Cone (lines 465-540).
Cone(origin, baseRadius, topRadius, height, vSides, dir, placement, k) ==
    LET ro == ResolveOrigin(origin, "Cone")
    IN  IF ro.st = "raise" THEN NotBuilt("Raise")
        ELSE IF ro.st = "none" THEN NotBuilt("None")
        ELSE LET o == ro.origin
                 r == Whole(MaxOf(baseRadius, topRadius))
                 off == IF Lower(placement) = "center" THEN <<0, 0, -Half(height)>>
                        ELSE IF Lower(placement) = "lowerleft" THEN <<r, r, 0>>
                        ELSE <<0, 0, 0>>
                 cone == createCone(baseRadius, topRadius, k)
                 pre == Corners(o.x + off[1] - r, o.x + off[1] + r,
                                o.y + off[2] - r, o.y + off[2] + r,
                                o.z + off[3], o.z + off[3] + Whole(height))
             IN  IF cone = "Raise" THEN NotBuilt("Raise")
                 \* lines 507-508: raise Exception("Cell.Cone - Error: Could not create cone")
                 ELSE IF cone = "None" THEN NotBuilt("Raise")
                 ELSE Built("Cell", pre, Orient(pre, o, dir), Orientation(o, dir),
                            [w |-> CuttingPlanes(o.z + off[3], height, vSides)])

\* Cell.ByThickenedFace (lines 150-171) on a face of the right kind: nothing in it
\* is guarded, and its result is the kernel's.
ByThickenedFace(k) ==
    IF k = "raise" THEN "Raise" ELSE IF k = "null" THEN "None" ELSE "Cell"

\* Cell.Cylinder (lines 582-630).
Cylinder(origin, radius, height, vSides, dir, placement, k) ==
    LET ro == ResolveOrigin(origin, "Cylinder")
    IN  IF ro.st = "raise" THEN NotBuilt("Raise")
        ELSE IF ro.st = "none" THEN NotBuilt("None")
        ELSE LET o == ro.origin
                 r == Whole(radius)
                 off == IF Lower(placement) = "center" THEN <<0, 0, -Half(height)>>
                        ELSE IF Lower(placement) = "lowerleft" THEN <<r, r, 0>>
                        ELSE <<0, 0, 0>>
                 cylinder == ByThickenedFace(k)
                 pre == Corners(o.x + off[1] - r, o.x + off[1] + r,
                                o.y + off[2] - r, o.y + off[2] + r,
                                o.z + off[3], o.z + off[3] + Whole(height))
             IN  IF cylinder = "Raise" THEN NotBuilt("Raise")
                 \* line 611: cylinder.Slice on None
                 ELSE IF cylinder = "None" /\ vSides > 1 THEN NotBuilt("Raise")
                 ELSE IF cylinder = "None"
                      THEN [NotBuilt("None") EXCEPT !.oriented = TRUE,
                                                    !.theta = Orientation(o, dir).theta,
                                                    !.phi = Orientation(o, dir).phi]
                 ELSE Built("Cell", pre, Orient(pre, o, dir), Orientation(o, dir),
                            [w |-> CuttingPlanes(o.z + off[3], height, vSides)])

\* Hyperboloid.createHyperboloid (lines 847-869).
createHyperboloid(baseRadius, topRadius, k) ==
    \* baseV or topV is empty: topVertices[-1] (line 860) at the latest raises
    IF baseRadius <= 0 \/ topRadius <= 0 THEN "Raise"
    ELSE IF k = "raise" THEN "Raise"
    \* lines 866-868: no cell, so the cluster of the faces
    ELSE IF k = "null" THEN "Cluster"
    ELSE "Cell"

\* Cell.Hyperboloid (lines 871-919).
Hyperboloid(origin, baseRadius, topRadius, height, dir, placement, k) ==
    LET ro == ResolveOrigin(origin, "Hyperboloid")
    IN  IF ro.st = "raise" THEN NotBuilt("Raise")
        ELSE IF ro.st = "none" THEN NotBuilt("None")
        ELSE LET o == ro.origin
                 r == Whole(MaxOf(baseRadius, topRadius))
                 off == IF Lower(placement) = "center" THEN <<0, 0, -Half(height)>>
                        ELSE IF Lower(placement) = "lowerleft" THEN <<r, r, 0>>
                        ELSE <<0, 0, 0>>
                 hyperboloid == createHyperboloid(baseRadius, topRadius, k)
                 pre == Corners(o.x + off[1] - r, o.x + off[1] + r,
                                o.y + off[2] - r, o.y + off[2] + r,
                                o.z + off[3], o.z + off[3] + Whole(height))
             IN  IF hyperboloid = "Raise" THEN NotBuilt("Raise")
                 ELSE Built(hyperboloid, pre, Orient(pre, o, dir), Orientation(o, dir), <<>>)

\* Cell.Sphere (lines 1325-1356), the kernel accepting the spin.
Sphere(origin, radius, dir, placement) ==
    LET ro == ResolveOrigin(origin, "Sphere")
    IN  IF ro.st = "raise" THEN NotBuilt("Raise")
        ELSE IF ro.st = "none" THEN NotBuilt("None")
        ELSE LET o == ro.origin
                 r == Whole(radius)
                 s == Corners(o.x - r, o.x + r, o.y - r, o.y + r, o.z - r, o.z + r)
                 pre == IF Lower(placement) = "bottom" THEN Translate(s, 0, 0, r)
                        ELSE IF Lower(placement) = "lowerleft" THEN Translate(s, r, r, r)
                        ELSE s
             IN  Built("Cell", pre, Orient(pre, o, dir), Orientation(o, dir), <<>>)

\* Cell.Torus (lines 1414-1445), the kernel accepting the spin.
Torus(origin, majorRadius, minorRadius, dir, placement) ==
    LET ro == ResolveOrigin(origin, "Torus")
    IN  IF ro.st = "raise" THEN NotBuilt("Raise")
        ELSE IF ro.st = "none" THEN NotBuilt("None")
        ELSE LET o == ro.origin
                 r == Whole(Abs(majorRadius - minorRadius)) + Whole(minorRadius)
                 s == Corners(o.x - r, o.x + r, o.y - r, o.y + r,
                              o.z - Whole(minorRadius), o.z + Whole(minorRadius))
                 pre == IF Lower(placement) = "bottom"
                        THEN Translate(s, 0, 0, Whole(majorRadius))
                        ELSE IF Lower(placement) = "lowerleft"
                        THEN Translate(s, Whole(majorRadius), Whole(majorRadius),
                                       Whole(minorRadius))
                        ELSE s
             IN  Built("Cell", pre, Orient(pre, o, dir), Orientation(o, dir), <<>>)

\* topologic.CellUtility.Volume of a box-shaped cell, times 8 (half units cubed).
Volume8(shape) == Extent(shape, 1) * Extent(shape, 2) * Extent(shape, 3)
\* cell.Centroid() of a box-shaped cell, times 2.
Centroid2(shape) == <<Mid2(shape, 1), Mid2(shape, 2), Mid2(shape, 3)>>

(***************************************************************************)
(* The arguments the primitives are exercised on.                          *)
(***************************************************************************)
MaxExtent == 3
MaxRadius == 2
MaxSides == 2

Origins == {None, NotAVertex, Vertex(0, 0, 0), Vertex(1, -2, 3)}
Directions ==
    { <<0, 0, 1>>, <<0, 0, -1>>, <<1, 0, 0>>, <<-1, 0, 0>>, <<0, 1, 0>>, <<0, -1, 0>>,
      <<0, 0, 0>> }
Placements == {"center", "CENTER", "lowerleft", "bottom", "top"}
SideCounts == {<<1, 1, 1>>, <<2, 1, 3>>}
HeightChoices == {2, 4}

Call(method, a, r) ==
    /\ op' = method
    /\ args' = a
    /\ ret' = r.ret
    /\ out' = r

PrismCall ==
    /\ op = "init"
    /\ \E origin \in Origins, width \in 1..MaxExtent, length \in {1, 3},
          height \in HeightChoices, sides \in SideCounts, dir \in Directions,
          placement \in Placements, k \in KernelOutcomes :
         Call("Prism",
              [origin |-> origin, width |-> width, length |-> length, height |-> height,
               sides |-> sides, dir |-> dir, placement |-> placement, k |-> k],
              Prism(origin, width, length, height, sides, dir, placement, k))

BoxCall ==
    /\ op = "init"
    /\ \E origin \in Origins, width \in 1..MaxExtent, length \in {1, 3},
          height \in HeightChoices, dir \in Directions, placement \in Placements :
         Call("Box",
              [origin |-> origin, width |-> width, length |-> length, height |-> height,
               sides |-> <<1, 1, 1>>, dir |-> dir, placement |-> placement, k |-> "ok"],
              Box(origin, width, length, height, <<1, 1, 1>>, dir, placement, "ok"))

ConeCall ==
    /\ op = "init"
    /\ \E origin \in Origins, baseRadius \in 0..MaxRadius, topRadius \in 0..MaxRadius,
          height \in HeightChoices, vSides \in 1..MaxSides, dir \in Directions,
          placement \in Placements, k \in KernelOutcomes :
         Call("Cone",
              [origin |-> origin, baseRadius |-> baseRadius, topRadius |-> topRadius,
               height |-> height, vSides |-> vSides, dir |-> dir,
               placement |-> placement, k |-> k],
              Cone(origin, baseRadius, topRadius, height, vSides, dir, placement, k))

CylinderCall ==
    /\ op = "init"
    /\ \E origin \in Origins, radius \in 1..MaxRadius, height \in HeightChoices,
          vSides \in 1..MaxSides, dir \in Directions, placement \in Placements,
          k \in KernelOutcomes :
         Call("Cylinder",
              [origin |-> origin, radius |-> radius, height |-> height, vSides |-> vSides,
               dir |-> dir, placement |-> placement, k |-> k],
              Cylinder(origin, radius, height, vSides, dir, placement, k))

HyperboloidCall ==
    /\ op = "init"
    /\ \E origin \in Origins, baseRadius \in 0..MaxRadius, topRadius \in 0..MaxRadius,
          height \in HeightChoices, dir \in Directions, placement \in Placements,
          k \in KernelOutcomes :
         Call("Hyperboloid",
              [origin |-> origin, baseRadius |-> baseRadius, topRadius |-> topRadius,
               height |-> height, dir |-> dir, placement |-> placement, k |-> k],
              Hyperboloid(origin, baseRadius, topRadius, height, dir, placement, k))

SphereCall ==
    /\ op = "init"
    /\ \E origin \in Origins, radius \in 1..MaxRadius, dir \in Directions,
          placement \in Placements :
         Call("Sphere",
              [origin |-> origin, radius |-> radius, dir |-> dir, placement |-> placement],
              Sphere(origin, radius, dir, placement))

TorusCall ==
    /\ op = "init"
    /\ \E origin \in Origins, majorRadius \in 1..MaxRadius, minorRadius \in 1..MaxRadius,
          dir \in Directions, placement \in Placements :
         Call("Torus",
              [origin |-> origin, majorRadius |-> majorRadius, minorRadius |-> minorRadius,
               dir |-> dir, placement |-> placement],
              Torus(origin, majorRadius, minorRadius, dir, placement))

NextPrimitives ==
    \/ PrismCall
    \/ BoxCall
    \/ ConeCall
    \/ CylinderCall
    \/ HyperboloidCall
    \/ SphereCall
    \/ TorusCall

SpecPrimitives == Init /\ [][NextPrimitives]_vars

(***************************************************************************)
(* The argument checks of the public methods of Cell.  An argument is of   *)
(* one kind: a kernel handle (every kernel handle is a topology and has    *)
(* the sub-element queries Faces, Edges, ...), a list, None, or an object  *)
(* that is nothing of the kind (a string).                                 *)
(***************************************************************************)
Topologies == {"Vertex", "Edge", "Wire", "Face", "Shell", "Cell", "Cluster"}
ArgKinds == Topologies \cup {"List", "None", "Str"}

\* The kind of argument each method documents.
Expected(method) ==
    CASE method \in {"Area", "SurfaceArea", "Compactness", "Volume", "InternalBoundaries",
                     "Decompose", "Edges", "Faces", "Shells", "Vertices", "Wires",
                     "ExternalBoundary", "InternalVertex", "IsInside"} -> "Cell"
      [] method \in {"ByFaces", "ByWires", "Sets"} -> "List"
      [] method = "ByShell" -> "Shell"
      [] method = "ByThickenedFace" -> "Face"
      [] method = "ByThickenedShell" -> "Shell"
      [] method = "ByWiresCluster" -> "Cluster"
      [] method = "Pipe" -> "Edge"
      [] method \in {"Prism", "Box", "Cone", "Cylinder", "Hyperboloid", "Sphere",
                     "Torus"} -> "Vertex"

EntryPoints ==
    { "Area", "SurfaceArea", "Compactness", "Volume", "InternalBoundaries", "Decompose",
      "Edges", "Faces", "Shells", "Vertices", "Wires", "ExternalBoundary",
      "InternalVertex", "IsInside", "ByFaces", "ByWires", "Sets", "ByShell",
      "ByThickenedFace", "ByThickenedShell", "ByWiresCluster", "Pipe", "Prism", "Box",
      "Cone", "Cylinder", "Hyperboloid", "Sphere", "Torus" }

\* "if not x": None is false, the other arguments of the model are true.
Falsy(kind) == kind = "None"

\* How a method ends on an argument that is not of the kind it expects, the
\* kernel accepting what it is asked: "None", "Raise", or the kind of value returned.
OnWrongKind(method, kind) ==
    CASE \* lines 26-31: cell.Faces(None, faces), no check
         method \in {"Area", "SurfaceArea"} ->
            IF kind \in Topologies THEN "Number" ELSE "Raise"
         \* lines 388-393: cell.Faces, then topologic.CellUtility.Volume(cell)
      [] method = "Compactness" -> "Raise"
         \* lines 1487-1489: "if not cell", then CellUtility.Volume(cell)
      [] method = "Volume" -> IF Falsy(kind) THEN "None" ELSE "Raise"
         \* lines 937-939: cell.InternalBoundaries(shells); a face has the query too
      [] method = "InternalBoundaries" -> IF kind = "Face" THEN "List" ELSE "Raise"
         \* lines 1247-1263: len(superCells), then CellUtility.InternalVertex
      [] method = "Sets" -> "Raise"
         \* line 257: wires[0], no check
      [] method = "ByWires" -> "Raise"
         \* an isinstance test, or try/except around the kernel call (ByShell)
      [] method \in {"Decompose", "Edges", "Faces", "Shells", "Vertices", "Wires",
                     "ExternalBoundary", "InternalVertex", "IsInside", "ByFaces",
                     "ByShell", "ByThickenedFace", "ByThickenedShell", "ByWiresCluster",
                     "Pipe"} -> "None"
         \* the origin of a primitive: "if not origin", then isinstance
      [] method \in {"Prism", "Box", "Cone", "Cylinder", "Hyperboloid", "Sphere",
                     "Torus"} ->
            IF ResolveOriginKind(kind, method) = "default" THEN "Cell"
            ELSE ResolveOriginKind(kind, method)

EntryCall ==
    /\ op = "init"
    /\ \E method \in EntryPoints : \E kind \in ArgKinds \ {Expected(method)} :
         /\ op' = method
         /\ args' = [kind |-> kind]
         /\ ret' = OnWrongKind(method, kind)
         /\ out' = NoOut

NextEntry == EntryCall

SpecEntry == Init /\ [][NextEntry]_vars

(***************************************************************************)
(* The orientation step at its threshold.  Here lengths are integers in    *)
(* units of 0.00001, so that a direction shorter than 0.0001 need not be   *)
(* zero.  The step is recorded by what it evaluates: either theta is       *)
(* forced to 0 (forced), or acos is evaluated on num/sqrt(den2) (acos).    *)
(***************************************************************************)
\* 0.0001, the threshold of "if dist < 0.0001", in units of 0.00001.
DistEpsilon == 10

\* The step without its test: acos(dz/dist) whatever dist is.
ThetaStep_NoGuard(dx, dy, dz) ==
    [forced |-> FALSE, acos |-> <<[num |-> dz, den2 |-> dx * dx + dy * dy + dz * dz]>>]

\* dist = sqrt(dx^2+dy^2+dz^2); if dist < 0.0001: theta = 0, else acos(dz/dist).
ThetaStep(dx, dy, dz) ==
    LET dist2 == dx * dx + dy * dy + dz * dz
    IN  IF dist2 < DistEpsilon * DistEpsilon
        THEN [forced |-> TRUE, acos |-> <<>>]
        ELSE [forced |-> FALSE, acos |-> <<[num |-> dz, den2 |-> dist2]>>]

\* The step of a primitive constructor: x2 = origin.X() + dirX, dx = x2 - x1, ...
OrientationStep(origin, dir) ==
    ThetaStep((origin[1] + dir[1]) - origin[1],
              (origin[2] + dir[2]) - origin[2],
              (origin[3] + dir[3]) - origin[3])

\* An edge of the kernel: a start vertex, an axis and a positive length.
Edge(start, axis, length) == [kind |-> "Edge", start |-> start, axis |-> axis, length |-> length]
EndVertex(edge) == [i \in 1..3 |-> edge.start[i] + edge.axis[i] * edge.length]

\* topologic.EdgeUtility.PointAtParameter(edge, offset / length): the point at
\* the distance offset from the start of the edge.
PointAtOffset(edge, offset) == [i \in 1..3 |-> edge.start[i] + edge.axis[i] * offset]

\* Cell.Pipe (lines 1029-1121) as far as its orientation steps go: the step of
\* the pipe itself and one for each end cap given.  byWires is how Cell.ByWires
\* ended (line 1067).
Pipe(edge, startOffset, endOffset, endcapA, endcapB, byWires) ==
    IF edge.kind # "Edge" THEN [ret |-> "None", steps |-> <<>>]
    ELSE LET sv == PointAtOffset(edge, startOffset)
             ev == PointAtOffset(edge, edge.length - endOffset)
             s == edge.start
             e == EndVertex(edge)
             pipe == ThetaStep(ev[1] - sv[1], ev[2] - sv[2], ev[3] - sv[3])
             capA == IF endcapA THEN <<ThetaStep(e[1] - s[1], e[2] - s[2], e[3] - s[3])>>
                     ELSE <<>>
             capB == IF endcapB THEN <<ThetaStep(s[1] - e[1], s[2] - e[2], s[3] - e[3])>>
                     ELSE <<>>
         IN  IF byWires = "raise" THEN [ret |-> "Raise", steps |-> <<>>]
             ELSE [ret |-> "List", steps |-> <<pipe>> \o capA \o capB]

(***************************************************************************)
(* The directions and edges the step is exercised on.                      *)
(***************************************************************************)
FineComponents == {-10000, -9, 0, 6, 8, 10, 10000}
FineOrigins == {<<0, 0, 0>>, <<10000, -20000, 7>>}
Axes == {<<1, 0, 0>>, <<0, -1, 0>>, <<0, 0, 1>>, <<0, 0, -1>>}
EdgeLengths == {5, 10, 10000}
Offsets == {0, 1, 5, 10, 5000, 10000}

OrientationCall ==
    /\ op = "init"
    /\ \E method \in {"Prism", "Box", "Cone", "Cylinder", "Hyperboloid", "Sphere", "Torus"},
          origin \in FineOrigins,
          dirX \in FineComponents, dirY \in FineComponents, dirZ \in FineComponents :
         /\ op' = "Orientation"
         /\ args' = [method |-> method, origin |-> origin, d |-> <<dirX, dirY, dirZ>>]
         /\ ret' = "Cell"
         /\ out' = [steps |-> <<OrientationStep(origin, <<dirX, dirY, dirZ>>)>>]

PipeCall ==
    /\ op = "init"
    /\ \E start \in FineOrigins, axis \in Axes, length \in EdgeLengths,
          startOffset \in Offsets, endOffset \in Offsets,
          endcapA \in BOOLEAN, endcapB \in BOOLEAN, byWires \in KernelOutcomes :
         LET r == Pipe(Edge(start, axis, length), startOffset, endOffset, endcapA,
                       endcapB, byWires)
         IN  /\ op' = "Pipe"
             /\ args' = [d |-> [i \in 1..3 |-> axis[i] * (length - endOffset - startOffset)],
                         edge |-> Edge(start, axis, length), startOffset |-> startOffset,
                         endOffset |-> endOffset, endcapA |-> endcapA,
                         endcapB |-> endcapB, byWires |-> byWires]
             /\ ret' = r.ret
             /\ out' = [steps |-> r.steps]

NextOrientation == OrientationCall \/ PipeCall

SpecOrientation == Init /\ [][NextOrientation]_vars

(***************************************************************************)
(* Cell.Sets.  A cell is the region of space it fills, a set of points,    *)
(* and the point of it the kernel names as its internal vertex (iv).       *)
(***************************************************************************)
Solid(region, iv) == [kind |-> "Cell", region |-> region, iv |-> iv]

\* topologic.CellUtility.InternalVertex(cell, tolerance)
InternalVertex(cell) == cell.iv

\* topologic.CellUtility.Contains(cell, vertex, tolerance) == 0: the vertex is inside.
Contains(cell, vertex) == vertex \in cell.region

\* Lines 1263-1267: the loop over j for one input cell.  unused[i] is set at the
\* first match and is not read again, so that every match appends.
ClassifyCell(sets, cell, superCells) ==
    LET iv == InternalVertex(cell)
    IN  [j \in 1..Len(sets) |->
            IF Contains(superCells[j], iv) THEN Append(sets[j], cell) ELSE sets[j]]

\* Lines 1261-1267: the loop over i.
RECURSIVE Classify(_, _, _, _)
Classify(sets, inputCells, superCells, i) ==
    IF i > Len(inputCells) THEN sets
    ELSE Classify(ClassifyCell(sets, inputCells[i], superCells), inputCells, superCells, i + 1)

\* Cell.Sets (lines 1247-1268).  unionCells is what the kernel finds in the union
\* of the input cells (cluster.Cells(None, superCells), line 1254).
Sets(inputCells, superCells, unionCells) ==
    IF superCells = <<>> /\ inputCells = <<>> THEN [ret |-> "Raise", sets |-> <<>>]
    ELSE LET supers == IF superCells = <<>> THEN unionCells ELSE superCells
         IN  [ret |-> "List",
              sets |-> Classify([j \in 1..Len(supers) |-> <<>>], inputCells, supers, 1)]

(***************************************************************************)
(* The cells Cell.Sets is exercised on.                                    *)
(***************************************************************************)
MaxCells == 2

Points == {1, 2}
Regions == (SUBSET Points) \ {{}}
InputCells == UNION {{Solid(r, p) : p \in r} : r \in Regions}
SuperCells == {Solid(r, CHOOSE p \in r : TRUE) : r \in Regions}

SetsCall ==
    /\ op = "init"
    /\ \E inputCells \in SeqsUpTo(InputCells, MaxCells),
          superCells \in SeqsUpTo(SuperCells, MaxCells),
          unionCells \in SeqsUpTo(SuperCells, MaxCells) :
         /\ superCells # <<>> => unionCells = <<>>
         /\ LET r == Sets(inputCells, superCells, unionCells)
            IN  /\ op' = "Sets"
                /\ args' = [inputCells |-> inputCells, superCells |-> superCells,
                            unionCells |-> unionCells]
                /\ ret' = r.ret
                /\ out' = [sets |-> r.sets]

NextSets == SetsCall

SpecSets == Init /\ [][NextSets]_vars

(***************************************************************************)
(* Honeybee.ExportToHBJSON (src/Honeybee.py).  A path is the sequence of   *)
(* its characters.  The file system is seen through the one file the call  *)
(* opens: what it holds before the call ("absent" when there is none) and  *)
(* whether the system lets the process create or truncate it (writable).   *)
(***************************************************************************)
\* str.lower() on the characters of the model.
LowerChar(c) ==
    CASE c = "H" -> "h" [] c = "B" -> "b" [] c = "J" -> "j" [] c = "S" -> "s"
      [] c = "O" -> "o" [] c = "N" -> "n" [] c = "A" -> "a" [] OTHER -> c
LowerStr(str) == [i \in 1..Len(str) |-> LowerChar(str[i])]

DotHbjson == <<".", "h", "b", "j", "s", "o", "n">>

\* path[len(path)-7:len(path)]: the last seven characters; on a shorter path the
\* start is negative and counts from the end.
Ext(path) ==
    LET n == Len(path)
        start == IF n >= 7 THEN n - 7 ELSE IF 2 * n > 7 THEN 2 * n - 7 ELSE 0
    IN  SubSeq(path, start + 1, n)

\* Lines 82-84 with the extension compared as written, without lower().
HBJSONPath_CaseSensitive(path) ==
    IF Ext(path) # DotHbjson THEN path \o DotHbjson ELSE path

\* Lines 82-84: the path of the file.
HBJSONPath(path) ==
    IF LowerStr(Ext(path)) # DotHbjson THEN path \o DotHbjson ELSE path

\* An HB model and json.dump(model.to_dict(), f, indent=4) of it.
HBModel(id) == [kind |-> "HBModel", id |-> id]
NotAModel == [kind |-> "Str", id |-> 0]
Json(model) == <<"json", model.id>>

\* open(path, mode): "w" creates or truncates where the system lets it, "x" creates
\* where the system lets it and there is no file yet.
Open(mode, file, writable) ==
    IF ~writable THEN "error"
    ELSE IF mode = "x" /\ file # "absent" THEN "error"
    ELSE "open"

\* Lines 86-90 with "w" in both branches.
OpenMode_AlwaysWrite(overwrite) == "w"

\* Lines 86-90: the mode the file is opened in.
OpenMode(overwrite) == IF overwrite THEN "w" ELSE "x"

\* Honeybee.ExportToHBJSON (lines 82-97): [ret, path, file], file being what the
\* file at path holds after the call.
ExportToHBJSON(model, path, overwrite, file, writable) ==
    LET target == HBJSONPath(path)
        f == Open(OpenMode(overwrite), file, writable)
    IN  \* lines 91-92: raise Exception("Error: Could not create a new file ...")
        IF f = "error" THEN [ret |-> "Raise", path |-> target, file |-> file]
        \* line 94: model.to_dict() on an object that has none; the file is open, empty
        ELSE IF model.kind # "HBModel" THEN [ret |-> "Raise", path |-> target, file |-> <<>>]
        ELSE [ret |-> "True", path |-> target, file |-> Json(model)]

(***************************************************************************)
(* The paths and files the export is exercised on.                         *)
(***************************************************************************)
Stems == {<<>>, <<"a">>, <<"A", "b">>, <<"d", "/", "a", ".", "b">>}
Suffixes ==
    { <<>>, DotHbjson, <<".", "H", "B", "J", "S", "O", "N">>,
      <<".", "H", "b", "J", "s", "o", "n">>, <<".", "j", "s", "o", "n">>,
      <<"h", "b", "j", "s", "o", "n">>, <<".", "h", "b", "j", "s", "o">>,
      <<".", "h", "b", "j", "s", "o", "n", "x">> }
Paths == {stem \o suffix : stem \in Stems, suffix \in Suffixes}
Files == {"absent", <<>>, <<"old">>, Json(HBModel(1))}

ExportToHBJSONCall ==
    /\ op = "init"
    /\ \E model \in {HBModel(1), HBModel(2), NotAModel}, path \in Paths,
          overwrite \in BOOLEAN, file \in Files, writable \in BOOLEAN :
         LET r == ExportToHBJSON(model, path, overwrite, file, writable)
         IN  /\ op' = "ExportToHBJSON"
             /\ args' = [model |-> model, path |-> path, overwrite |-> overwrite,
                         file |-> file, writable |-> writable]
             /\ ret' = r.ret
             /\ out' = [path |-> r.path, file |-> r.file]

NextExport == ExportToHBJSONCall

SpecExport == Init /\ [][NextExport]_vars

(***************************************************************************)
(* Vector.Multiply, Vector.Normalize and Vector.SetMagnitude.  Numbers are  *)
(* counted in units of 0.0001, the default tolerance, so that 1.0 is One;  *)
(* a value that need not be a whole number of units is kept as a reduced   *)
(* fraction <<numerator, denominator>> of units.                            *)
(***************************************************************************)
One == 10000

DefaultTolerance == 1

RECURSIVE GCD(_, _)
GCD(a, b) == IF b = 0 THEN a ELSE GCD(b, a % b)

\* The fraction n / d of units in lowest terms, d # 0.
Frac(n, d) ==
    LET g == GCD(Abs(n), Abs(d))
        sgn == IF d < 0 THEN -1 ELSE 1
    IN  <<sgn * (n \div g), sgn * (d \div g)>>

\* The square root by Newton's iteration from above; exact on perfect squares.
RECURSIVE NewtonSqrt(_, _)
NewtonSqrt(n, x) ==
    LET y == (x + n \div x) \div 2
    IN  IF y >= x THEN x ELSE NewtonSqrt(n, y)

Sqrt(n) == IF n = 0 THEN 0 ELSE NewtonSqrt(n, n)

RECURSIVE SumOfSquares(_)
SumOfSquares(vector) ==
    IF vector = <<>> THEN 0
    ELSE Head(vector) * Head(vector) + SumOfSquares(Tail(vector))

\* oldMag of Vector.Multiply and np.linalg.norm, in units.
Norm(vector) == Sqrt(SumOfSquares(vector))

\* Vector.Multiply: the zero vector of three components below the tolerance,
\* otherwise vector[i] * magnitude / oldMag.
Multiply(vector, magnitude, tolerance) ==
    LET oldMag == Norm(vector)
    IN  IF oldMag < tolerance THEN <<Frac(0, 1), Frac(0, 1), Frac(0, 1)>>
        ELSE [i \in 1..Len(vector) |-> Frac(vector[i] * magnitude, oldMag)]

\* Vector.Normalize: vector / norm; 0 / 0 is nan.
Normalize(vector) ==
    LET norm == Norm(vector)
    IN  [i \in 1..Len(vector) |->
            IF norm = 0 THEN "nan" ELSE (vector[i] * One) \div norm]

\* The vectors whose normalised components are whole numbers of units.
Normalizable(vector) ==
    /\ Norm(vector) # 0
    /\ \A i \in 1..Len(vector) : (vector[i] * One) % Norm(vector) = 0

\* Vector.SetMagnitude.
SetMagnitude(vector, magnitude) ==
    Multiply(Normalize(vector), magnitude, DefaultTolerance)

\* Vectors of a whole number of units in length: null, below and at a tolerance,
\* of length one, and longer or shorter than one, of two and of three components.
Vectors ==
    { <<0, 0, 0>>, <<3, 0, 0>>, <<3, 4, 0>>, <<0, 0, 1>>,
      <<One, 0, 0>>, <<0, -One, 0>>, <<6000, 8000, 0>>, <<0, 6000, -8000>>,
      <<2 * One, 0, 0>>, <<0, 0, 5000>>, <<12000, 16000, 0>>,
      <<One, 2 * One, 2 * One>>, <<-3000, 0, 4000>>, <<2000, 3000, 6000>>,
      <<One, 0>>, <<6000, 8000>>, <<9000, 12000>>, <<0, 0>> }

Magnitudes == {-2 * One, 0, 5000, One, 3 * One}

VectorTolerances == {DefaultTolerance, 5, One + 1}

MultiplyCall ==
    /\ op = "init"
    /\ \E vector \in Vectors, magnitude \in Magnitudes, tolerance \in VectorTolerances :
         /\ op' = "Multiply"
         /\ args' = [vector |-> vector, magnitude |-> magnitude, tolerance |-> tolerance]
         /\ ret' = Multiply(vector, magnitude, tolerance)
         /\ out' = [oldMag |-> Norm(vector)]

SetMagnitudeCall ==
    /\ op = "init"
    /\ \E vector \in {v \in Vectors : Normalizable(v)}, magnitude \in Magnitudes :
         /\ op' = "SetMagnitude"
         /\ args' = [vector |-> vector, magnitude |-> magnitude]
         /\ ret' = SetMagnitude(vector, magnitude)
         /\ out' = [oldMag |-> Norm(vector)]

\* Vector.IsCollinear: the angle between the vectors is below the tolerance, in
\* hundredths of a degree.  The vectors of the model have lengths within a factor
\* 10^10 of each other, so Vector.Angle takes them as given (line 29).
IsCollinear(vectorA, vectorB, tolerance) == Angle(vectorA, vectorB) < tolerance

Scale(k, v) == <<k * v[1], k * v[2], k * v[3]>>

\* Multiples, positive and negative, of five directions at 0, 45, 90, 135 and 180
\* degrees to each other.
CollinearityVectors ==
    { Scale(k, v) : k \in {-3, -1, 1, 2},
                    v \in {<<1, 0, 0>>, <<0, 1, 0>>, <<0, 0, 1>>, <<1, 1, 0>>, <<1, -1, 0>>} }

AngleTolerances == {0, 10, 4600}

IsCollinearCall ==
    /\ op = "init"
    /\ \E vectorA \in CollinearityVectors, vectorB \in CollinearityVectors,
          tolerance \in AngleTolerances :
         /\ op' = "IsCollinear"
         /\ args' = [vectorA |-> vectorA, vectorB |-> vectorB, tolerance |-> tolerance]
         /\ ret' = IsCollinear(vectorA, vectorB, tolerance)
         /\ out' = [angle |-> Angle(vectorA, vectorB)]

NextVector == MultiplyCall \/ SetMagnitudeCall \/ IsCollinearCall

SpecVector == Init /\ [][NextVector]_vars

(***************************************************************************)
(* Plotly.FigureByConfusionMatrix: the bounds of the colour scale.  A      *)
(* matrix is a sequence of rows of numbers; an optional number is <<>> for  *)
(* None and <<x>> for the number x.                                        *)
(***************************************************************************)
Transpose(matrix) ==
    [j \in 1..Len(matrix[1]) |-> [i \in 1..Len(matrix) |-> matrix[i][j]]]

\* Python's "not x" of None or a number.
Not(x) == x = <<>> \/ x = <<0>>

\* max_values of lines 664-666 and max(max_values) of line 680.
MaxOfRows(matrix) == Max({Max(Range(matrix[i])) : i \in 1..Len(matrix)})

\* Lines 658-698: indexing the categories by column and by row raises when they
\* are fewer than the columns or rows; zmin and zmax of the heat map otherwise.
FigureByConfusionMatrix(matrix, categories, minValue, maxValue) ==
    LET m == Transpose(matrix)
        zmin == IF Not(minValue) THEN 0 ELSE minValue[1]
        zmax == IF Not(maxValue) THEN MaxOfRows(m) ELSE maxValue[1]
    IN  IF Len(categories) < Len(m) \/ Len(categories) < Len(m[1])
        THEN [kind |-> "IndexError"]
        ELSE [kind |-> "Figure", zmin |-> zmin, zmax |-> zmax,
              annotations |-> Len(m) * Len(m[1])]

MatrixValues == {-1, 0, 2}

Matrices ==
    {<<<<a>>>> : a \in MatrixValues}
        \cup {<<<<a, b>>, <<c, d>>>> : a \in MatrixValues, b \in MatrixValues,
                                       c \in MatrixValues, d \in MatrixValues}

FigureByConfusionMatrixCall ==
    /\ op = "init"
    /\ \E matrix \in Matrices, categories \in {<<>>, <<"a", "b">>},
          minValue \in {<<>>, <<0>>, <<1>>}, maxValue \in {<<>>, <<0>>, <<5>>} :
         /\ op' = "FigureByConfusionMatrix"
         /\ args' = [matrix |-> matrix, categories |-> categories,
                     minValue |-> minValue, maxValue |-> maxValue]
         /\ ret' = FigureByConfusionMatrix(matrix, categories, minValue, maxValue)
         /\ out' = NoOut

(***************************************************************************)
(* Plotly.DataByTopology: the labels and groups of the vertex and the edge *)
(* trace.  A dictionary is a function from its keys to strings, a key that *)
(* is not given is "None", and the label "a (g)" is the pair <<"a", "g">>.  *)
(***************************************************************************)
\* str(Dictionary.ValueAtKey(d, key)): the value, None when the key is missing.
ValueAtKey(d, key) == IF key \in DOMAIN d THEN d[key] ELSE "None"

\* groups.index(group), counted from 0, and len(groups) when it is not a member.
GroupIndex(groups, group) ==
    IF \E i \in 1..Len(groups) : groups[i] = group
    THEN Min({i \in 1..Len(groups) : groups[i] = group}) - 1
    ELSE Len(groups)

\* The label of lines 348-362 and 401-415.
LabelOf(label, group) == IF label # "" /\ group # "" THEN <<label, group>> ELSE <<label>>

\* The text and the colour of a trace, given the labels and group indices gathered:
\* fewer than two distinct groups give the plain colour, no label gives "".
Trace(labels, groupList, color) ==
    [text |-> labels,
     color |-> IF Cardinality(Range(groupList)) < 2
               THEN [kind |-> "color", value |-> color]
               ELSE [kind |-> "groups", value |-> groupList]]

\* The loop shared by vertexData (lines 339-363) and edgeData (lines 393-416):
\* an element adds a label and a group index only when dictionaries are passed.
Labelled(n, dictionaries, labelKey, groupKey, groups, color) ==
    IF (labelKey # "None" \/ groupKey # "None") /\ Len(dictionaries) > 0
    THEN Trace([m \in 1..n |-> LabelOf(ValueAtKey(dictionaries[m], labelKey),
                                       ValueAtKey(dictionaries[m], groupKey))],
               [m \in 1..n |-> GroupIndex(groups, ValueAtKey(dictionaries[m], groupKey))],
               color)
    ELSE Trace(<<>>, <<>>, color)

vertexData(vertices, dictionaries, vertexColor, vertexLabelKey, vertexGroupKey, vertexGroups) ==
    Labelled(Len(vertices), dictionaries, vertexLabelKey, vertexGroupKey, vertexGroups,
             vertexColor)

edgeData(edges, dictionaries, edgeColor, edgeLabelKey, edgeGroupKey, edgeGroups) ==
    Labelled(Len(edges), dictionaries, edgeLabelKey, edgeGroupKey, edgeGroups, edgeColor)

\* A topology is given by the dictionaries of its vertices and of its edges.
PlotTopology(vertexDicts, edgeDicts) ==
    [kind |-> "Topology", vertexDicts |-> vertexDicts, edgeDicts |-> edgeDicts]

\* Lines 520-553 with showVertices and showEdges: the dictionaries of the vertices
\* are gathered when a vertex key is given and passed to vertexData; edgeData is
\* called with dictionaries=[].
DataByTopology(topology, vertexLabelKey, vertexGroupKey, edgeLabelKey, edgeGroupKey, vertexGroups, edgeGroups) ==
    IF topology.kind # "Topology" THEN [kind |-> "None"]
    ELSE LET v_dictionaries ==
                 IF vertexLabelKey # "None" \/ vertexGroupKey # "None"
                 THEN topology.vertexDicts ELSE <<>>
         IN  [kind |-> "Data",
              vertices |-> vertexData(topology.vertexDicts, v_dictionaries, "black",
                                      vertexLabelKey, vertexGroupKey, vertexGroups),
              edges |-> edgeData(topology.edgeDicts, <<>>, "black",
                                 edgeLabelKey, edgeGroupKey, edgeGroups)]

Dictionaries ==
    {[label |-> l, group |-> g] : l \in {"a", "b"}, g \in {"g1", "g2"}}

MaxElements == 2

PlotTopologies ==
    {PlotTopology(vs, es) :
        vs \in {<<[label |-> "a", group |-> "g1"], [label |-> "a", group |-> "g1"]>>,
                <<[label |-> "a", group |-> "g1"], [label |-> "b", group |-> "g2"]>>},
        es \in SeqsUpTo(Dictionaries, MaxElements) \ {<<>>}}
        \cup {[kind |-> "NotATopology"]}

GroupLists == {<<>>, <<"g1", "g2">>}

DataByTopologyCall ==
    /\ op = "init"
    /\ \E topology \in PlotTopologies, vertexKeys \in BOOLEAN,
          edgeLabelKey \in {"None", "label"}, edgeGroupKey \in {"None", "group"},
          groups \in GroupLists :
         LET vertexLabelKey == IF vertexKeys THEN "label" ELSE "None"
             vertexGroupKey == IF vertexKeys THEN "group" ELSE "None"
         IN  /\ op' = "DataByTopology"
             /\ args' = [topology |-> topology,
                         vertexLabelKey |-> vertexLabelKey, vertexGroupKey |-> vertexGroupKey,
                         edgeLabelKey |-> edgeLabelKey, edgeGroupKey |-> edgeGroupKey,
                         vertexGroups |-> groups, edgeGroups |-> groups]
             /\ ret' = DataByTopology(topology, vertexLabelKey, vertexGroupKey,
                                      edgeLabelKey, edgeGroupKey, groups, groups)
             /\ out' = NoOut

NextPlotly == FigureByConfusionMatrixCall \/ DataByTopologyCall

SpecPlotly == Init /\ [][NextPlotly]_vars

(***************************************************************************)
(* Every method of the model.                                              *)
(***************************************************************************)
Next == NextLoft \/ NextBridge \/ NextDecompose \/ NextPrimitives \/ NextEntry \/ NextOrientation \/ NextSets \/ NextExport
            \/ NextVector \/ NextPlotly

Spec == Init /\ [][Next]_vars

(***************************************************************************)
(* Properties of Cell.ByWires.                                             *)
(***************************************************************************)
AllWires(wires) == \A i \in 1..Len(wires) : wires[i].kind = "Wire"

\* Some consecutive pair of wires has different edge counts.
Mismatched(wires) ==
    \E i \in 1..(Len(wires) - 1) : Len(wires[i].vs) # Len(wires[i + 1].vs)

\* C1: Cell.ByWires on a list of wires in which a consecutive pair has different
\* edge counts returns None, whichever pair it is and whatever close and
\* triangulate are.
C1_MismatchReturnsNone ==
    (op = "ByWires" /\ AllWires(args.wires) /\ Mismatched(args.wires)) => ret = "None"

\* A loft over a mismatched pair that ends in an exception although the kernel
\* rejects no face: a diagonal of an earlier pair joins coincident vertices.
C1_Failure ==
    /\ op = "ByWires"
    /\ AllWires(args.wires)
    /\ Mismatched(args.wires)
    /\ args.ff = {}
    /\ ret = "Raise"

\* No side edge (start to start, end to end) and no diagonal of a matched edge pair
\* of the two wires joins coincident vertices.
NoCoincidence(w1, w2) ==
    \A j \in 1..Len(w1.vs) :
        LET e1 == WireEdges(w1)[j]
            e2 == WireEdges(w2)[j]
        IN  e1[1] # e2[1] /\ e1[2] # e2[2] /\ e1[1] # e2[2]

\* The call is a loft of two wires of n edges each, not closed, in which the
\* kernel rejects no construction.
TwoWireLoft ==
    /\ op = "ByWires"
    /\ Len(args.wires) = 2
    /\ AllWires(args.wires)
    /\ Len(args.wires[1].vs) = Len(args.wires[2].vs)
    /\ ~args.close
    /\ args.ff = {}
    /\ NoCoincidence(args.wires[1], args.wires[2])

CapsOf(wires) == <<Face(WireEdges(wires[1])), Face(WireEdges(wires[2]))>>
TriangulatedCapsOf(wires) == Triangulate(wires[1].vs) \o Triangulate(wires[2].vs)

\* The bridging faces of out.faces that lie between edge j of the first wire and
\* edge j of the second: those holding both edges, or one of them and the
\* diagonal of the pair.
BridgesPair(f, wires, j) ==
    LET e1 == WireEdges(wires[1])[j]
        e2 == WireEdges(wires[2])[j]
        es == Range(f.edges)
    IN  \/ e1 \in es /\ e2 \in es
        \/ (e1 \in es \/ e2 \in es) /\ <<e1[1], e2[2]>> \in es

\* C2: two wires of n edges, close = False, nothing rejected: the faces handed to
\* Cell.ByFaces are the 2 caps and exactly one bridging face per edge pair
\* (untriangulated), or the triangulated caps and at most 2 bridging faces per edge
\* pair (triangulated); their vertices are exactly those of the two wires.
C2_TwoWireFaceSet ==
    TwoWireLoft =>
        LET wires == args.wires
            n == Len(wires[1].vs)
            caps == IF args.triangulate THEN TriangulatedCapsOf(wires) ELSE CapsOf(wires)
            bridging == SubSeq(out.faces, Len(caps) + 1, Len(out.faces))
            perPair(j) == Cardinality({i \in 1..Len(bridging) : BridgesPair(bridging[i], wires, j)})
        IN  /\ ret \in {"Cell", "None"}
            /\ Len(out.faces) >= Len(caps)
            /\ SubSeq(out.faces, 1, Len(caps)) = caps
            /\ \A i \in 1..Len(bridging) : \E j \in 1..n : BridgesPair(bridging[i], wires, j)
            /\ ~args.triangulate =>
                  /\ Len(out.faces) = 2 + n
                  /\ \A j \in 1..n : perPair(j) = 1
            /\ args.triangulate =>
                  /\ Len(bridging) <= 2 * n
                  /\ \A j \in 1..n : perPair(j) <= 2
            /\ FaceVertices(out.faces) = Range(wires[1].vs) \cup Range(wires[2].vs)

C2_Witness ==
    /\ TwoWireLoft
    /\ ~args.triangulate
    /\ Len(args.wires[1].vs) = 3
    /\ Len(out.faces) = 5
    /\ ret = "Cell"

(***************************************************************************)
(* Properties of the argument checks and of the failure of a construction. *)
(***************************************************************************)
\* C3: every public entry point of Cell, given an argument that is not of the
\* expected kind, returns None without raising.
C3_WrongKindReturnsNone ==
    (op \in EntryPoints /\ args.kind # Expected(op)) => ret = "None"

\* Cell.Area(None) raises.
C3_Failure ==
    /\ op = "Area"
    /\ args.kind = "None"
    /\ ret = "Raise"

Constructors == {"Prism", "Box", "Cone", "Cylinder", "Hyperboloid"}

\* The kernel raised or rejected a construction inside the constructor, or the
\* cone has both radii zero.
ConstructionRejected ==
    \/ args.k # "ok"
    \/ op = "Cone" /\ args.baseRadius = 0 /\ args.topRadius = 0

\* C4: whenever a kernel call raises or rejects a construction inside a public
\* Cell constructor, the call returns None: no exception escapes.
C4_RejectionReturnsNone ==
    (op \in Constructors /\ args.origin.kind = "Vertex" /\ ConstructionRejected)
        => ret = "None"

\* Cell.Cone with both radii zero raises, the kernel rejecting nothing.
C4_Failure ==
    /\ op = "Cone"
    /\ args.origin.kind = "Vertex"
    /\ args.baseRadius = 0 /\ args.topRadius = 0
    /\ args.k = "ok"
    /\ ret = "Raise"

Primitives == {"Prism", "Box", "Cone", "Cylinder", "Hyperboloid", "Sphere", "Torus"}

\* C5: a constructor that returns, returns a cell or None, never a partial or
\* non-solid result.
C5_CellOrNone ==
    (op \in Primitives /\ ret # "Raise") => ret \in {"Cell", "None"}

\* Cell.Hyperboloid returns a cluster of faces when the kernel makes no cell of them.
C5_Failure ==
    /\ op = "Hyperboloid"
    /\ args.k = "null"
    /\ ret = "Cluster"

(***************************************************************************)
(* Properties of Cell.Decompose.                                           *)
(***************************************************************************)
\* C6: Decompose of the axis-aligned unit box with tiltAngle = 10 (and a tolerance
\* not above the height of the box) puts exactly one face, the one at zMin, in
\* bottomHorizontalFaces, exactly one, the one at zMax, in topHorizontalFaces, four
\* in verticalFaces and none in inclinedFaces.
C6_UnitBoxDecomposition ==
    (/\ op = "Decompose"
     /\ args.cell \in {UnitBox, WithApertures(UnitBox)}
     /\ args.tiltAngle = 1000
     /\ args.tolerance <= 10000)
        => LET faces == args.cell.faces
               zs == {faces[i].z : i \in 1..Len(faces)}
           IN  /\ ret = "Dict"
               /\ Len(out.bottomHorizontalFaces) = 1
               /\ faces[out.bottomHorizontalFaces[1]].z = Min(zs)
               /\ Len(out.topHorizontalFaces) = 1
               /\ faces[out.topHorizontalFaces[1]].z = Max(zs)
               /\ Len(out.verticalFaces) = 4
               /\ out.inclinedFaces = <<>>

C6_Witness ==
    /\ op = "Decompose"
    /\ args.cell = UnitBox
    /\ args.tiltAngle = 1000
    /\ args.tolerance = 1
    /\ Len(out.verticalFaces) = 4

\* C7: Decompose partitions the faces of the cell: the four lists together hold
\* every face of the cell exactly once.
C7_FacesPartitioned ==
    (op = "Decompose" /\ args.cell.kind = "Cell")
        => LET all == out.verticalFaces \o out.topHorizontalFaces
                        \o out.bottomHorizontalFaces \o out.inclinedFaces
           IN  /\ ret = "Dict"
               /\ Len(all) = Len(args.cell.faces)
               /\ Range(all) = 1..Len(args.cell.faces)

C7_Witness ==
    /\ op = "Decompose"
    /\ ret = "Dict"
    /\ args.tiltAngle = 1000
    /\ out.verticalFaces # <<>>
    /\ out.topHorizontalFaces # <<>>
    /\ out.bottomHorizontalFaces # <<>>
    /\ out.inclinedFaces # <<>>

(***************************************************************************)
(* Properties of the primitive constructors.                               *)
(***************************************************************************)
\* C8: Box / Prism with width w, length l, height h, placement "center", a given
\* origin and direction (0,0,1) yields a solid of volume w*l*h whose centroid is
\* the origin.
C8_CenteredBox ==
    (/\ op \in {"Prism", "Box"}
     /\ args.origin.kind = "Vertex"
     /\ args.k = "ok"
     /\ Lower(args.placement) = "center"
     /\ args.dir = <<0, 0, 1>>)
        => /\ ret = "Cell"
           /\ Volume8(out.shape) = 8 * args.width * args.length * args.height
           /\ Centroid2(out.shape) = <<2 * args.origin.x, 2 * args.origin.y, 2 * args.origin.z>>

C8_Witness ==
    /\ op = "Box"
    /\ args.origin = Vertex(1, -2, 3)
    /\ args.width = 2 /\ args.length = 3 /\ args.height = 4
    /\ args.placement = "center"
    /\ args.dir = <<0, 0, 1>>
    /\ ret = "Cell"
    /\ Volume8(out.shape) = 8 * 24

\* The call with origin = None replaced by the vertex (0,0,0).
AtZero ==
    LET z == Vertex(0, 0, 0)
    IN  CASE op \in {"Prism", "Box"} ->
                Prism(z, args.width, args.length, args.height, args.sides, args.dir,
                      args.placement, args.k)
          [] op = "Cone" ->
                Cone(z, args.baseRadius, args.topRadius, args.height, args.vSides,
                     args.dir, args.placement, args.k)
          [] op = "Cylinder" ->
                Cylinder(z, args.radius, args.height, args.vSides, args.dir,
                         args.placement, args.k)
          [] op = "Hyperboloid" ->
                Hyperboloid(z, args.baseRadius, args.topRadius, args.height, args.dir,
                            args.placement, args.k)
          [] op = "Sphere" -> Sphere(z, args.radius, args.dir, args.placement)
          [] op = "Torus" ->
                Torus(z, args.majorRadius, args.minorRadius, args.dir, args.placement)

\* C9: every primitive constructor called with origin = None places the shape at
\* (0,0,0): the result is that of the call with the origin vertex (0,0,0).
C9_NoneOriginIsZero ==
    (op \in Primitives /\ args.origin = None) => out = AtZero

\* Cell.Box(origin=None) raises where Cell.Box at the vertex (0,0,0) makes a cell.
C9_Failure ==
    /\ op = "Box"
    /\ args.origin = None
    /\ ret = "Raise"
    /\ AtZero.ret = "Cell"

\* C10: in every primitive constructor, for every origin, the direction (0,0,1)
\* gives theta = 0 and phi = 0 and the shape is left unrotated.
C10_UpIsUnrotated ==
    (op \in Primitives /\ out.oriented /\ args.dir = <<0, 0, 1>>)
        => /\ out.theta = 0
           /\ out.phi = 0
           /\ out.shape = out.pre

C10_Witness ==
    /\ op = "Torus"
    /\ args.origin = Vertex(1, -2, 3)
    /\ args.dir = <<0, 0, 1>>
    /\ out.oriented
    /\ out.shape # {}
    /\ out.theta = 0

(***************************************************************************)
(* Properties of the orientation step at its threshold.                    *)
(***************************************************************************)
SquaredLength(d) == d[1] * d[1] + d[2] * d[2] + d[3] * d[3]

\* C11: in every primitive constructor and in Pipe, theta is forced to 0 whenever
\* the direction is shorter than 0.0001, and acos is only evaluated on dz/dist with
\* dist >= 0.0001: dist is not zero and the argument lies within [-1, 1].
C11_ThetaGuarded ==
    (op \in {"Orientation", "Pipe"} /\ ret # "Raise" /\ ret # "None")
        => /\ out.steps # <<>>
           /\ SquaredLength(args.d) < DistEpsilon * DistEpsilon
                 => out.steps[1].forced /\ out.steps[1].acos = <<>>
           /\ \A i \in 1..Len(out.steps) : \A j \in 1..Len(out.steps[i].acos) :
                 LET a == out.steps[i].acos[j]
                 IN  /\ a.den2 >= DistEpsilon * DistEpsilon
                     /\ a.den2 # 0
                     /\ a.num * a.num <= a.den2

\* A direction that is not zero and shorter than 0.0001: theta forced to 0.
C11_Witness ==
    /\ op = "Orientation"
    /\ args.d = <<6, 0, 0>>
    /\ out.steps[1].forced

(***************************************************************************)
(* Properties of the placement of the primitives.                          *)
(***************************************************************************)
\* A primitive built at a given origin vertex.
BuiltAtVertex == op \in Primitives /\ ret = "Cell" /\ args.origin.kind = "Vertex"

OriginCoord(k) == <<args.origin.x, args.origin.y, args.origin.z>>[k]

\* C12: for every primitive constructor, before rotation, placement "center" (any
\* letter case) puts the origin at the middle of the extent of the shape along the
\* construction axis, and "lowerleft" puts it at the corner of minimum x, y and z.
C12_CenterAndLowerLeft ==
    BuiltAtVertex =>
        /\ Lower(args.placement) = "center"
              => Mid2(out.pre, 3) = 2 * OriginCoord(3)
        /\ Lower(args.placement) = "lowerleft"
              => \A k \in 1..3 : Min(Coord(out.pre, k)) = OriginCoord(k)

\* A torus whose tube is wider than its ring, placed "lowerleft": it reaches below
\* the origin in x.
C12_Failure ==
    /\ BuiltAtVertex
    /\ op = "Torus"
    /\ args.majorRadius < args.minorRadius
    /\ args.placement = "lowerleft"
    /\ Min(Coord(out.pre, 1)) < OriginCoord(1)

\* C13: for every primitive constructor, a placement other than "center" and
\* "lowerleft" ("bottom" and unrecognised strings included) leaves the origin at the
\* base of the shape: the minimum of the shape along the construction axis is the
\* coordinate of the origin.
C13_OtherPlacementAtBase ==
    (BuiltAtVertex /\ Lower(args.placement) \notin {"center", "lowerleft"})
        => Min(Coord(out.pre, 3)) = OriginCoord(3)

\* A torus placed "bottom" is lifted by its major radius: its base is above the
\* origin.
C13_Failure ==
    /\ BuiltAtVertex
    /\ op = "Torus"
    /\ args.placement = "bottom"
    /\ args.majorRadius > args.minorRadius
    /\ Min(Coord(out.pre, 3)) > OriginCoord(3)

(***************************************************************************)
(* Properties of closing a loft and of lofting a cluster.                  *)
(***************************************************************************)
\* A closed loft through three wires or more, all of the same edge count, in which
\* no construction is rejected: the faces reach Cell.ByFaces.
ClosedLoft ==
    /\ op = "ByWires"
    /\ args.close
    /\ Len(args.wires) >= 3
    /\ AllWires(args.wires)
    /\ \A i \in 1..Len(args.wires) : Len(args.wires[i].vs) = Len(args.wires[1].vs)
    /\ args.ff = {}
    /\ \A i \in 1..(Len(args.wires) - 1) : NoCoincidence(args.wires[i], args.wires[i + 1])
    /\ NoCoincidence(args.wires[Len(args.wires)], args.wires[1])

\* C14: with close = True the last wire is connected to the first: for every edge
\* pair of (last wire, first wire) the face list holds a bridging face.
C14_CloseBridgesLastToFirst ==
    ClosedLoft =>
        LET last == args.wires[Len(args.wires)]
            first == args.wires[1]
        IN  \A j \in 1..Len(first.vs) :
                \E i \in 1..Len(out.faces) : BridgesPair(out.faces[i], <<last, first>>, j)

\* A closed loft through three triangles apart from each other: three caps and the
\* bridging faces of the two consecutive pairs, none between the last and the first.
C14_Failure ==
    /\ ClosedLoft
    /\ ~args.triangulate
    /\ args.wires = <<Wire(<<1, 2, 3>>), Wire(<<4, 5, 6>>), Wire(<<7, 1, 8>>)>>
    /\ Len(out.faces) = 3 + 2 * 3
    /\ \A i \in 1..Len(out.faces) :
          ~BridgesPair(out.faces[i], <<args.wires[3], args.wires[1]>>, 1)

\* C15: Cell.ByWiresCluster(cluster, close, triangulate, tolerance) produces the
\* face set and the result of Cell.ByWires(wires of the cluster, close, triangulate,
\* tolerance), for every value of the flags.
C15_ClusterLoftIsListLoft ==
    (op = "ByWiresCluster" /\ args.cluster.kind = "Cluster")
        => LET r == ByWires(args.cluster.wires, args.close, args.triangulate,
                            args.ch, args.ff, args.sew)
           IN  ret = r.ret /\ out.faces = r.faces

\* A cluster of two triangles lofted with triangulate = False: the two caps and six
\* triangles, where Cell.ByWires makes the two caps and three quadrilaterals.
C15_Failure ==
    /\ op = "ByWiresCluster"
    /\ args.cluster = Cluster(<<Wire(<<1, 2, 3>>), Wire(<<4, 5, 6>>)>>)
    /\ ~args.triangulate /\ ~args.close /\ args.ff = {}
    /\ Len(out.faces) = 2 + 2 * 3
    /\ Len(ByWires(args.cluster.wires, FALSE, FALSE, args.ch, {}, args.sew).faces) = 2 + 3

(***************************************************************************)
(* Properties of Cell.Sets.                                                *)
(***************************************************************************)
\* The input cells, in input order, whose internal vertex lies in the super cell.
CellsWithin(inputCells, superCell) ==
    SelectSeq(inputCells, LAMBDA c : c.iv \in superCell.region)

\* One set for each of supers, in their order, set j holding the input cells within
\* supers[j].
SetsFollow(supers) ==
    /\ ret = "List"
    /\ Len(out.sets) = Len(supers)
    /\ \A j \in 1..Len(supers) : out.sets[j] = CellsWithin(args.inputCells, supers[j])

\* C16 as stated: Cell.Sets returns one set per super cell, in the order of
\* superCells, set j holding exactly the input cells (in input order) whose internal
\* vertex is contained in superCells[j].
C16_SetsFollowSuperCells ==
    op = "Sets" => SetsFollow(args.superCells)

\* What the code does: with superCells not empty the sets follow superCells;
\* with superCells empty and input cells given, the sets follow the cells the
\* kernel finds in the union of the input cells.
C16_SetsFollowSuperCellsOrUnion ==
    (op = "Sets" /\ (args.superCells # <<>> \/ args.inputCells # <<>>))
        => SetsFollow(IF args.superCells = <<>> THEN args.unionCells ELSE args.superCells)

\* No super cells given and two input cells apart from each other: the call
\* returns one set for each cell the kernel finds in their union.
C16_Failure ==
    /\ op = "Sets"
    /\ args.superCells = <<>>
    /\ args.inputCells = <<Solid({1}, 1), Solid({2}, 2)>>
    /\ args.unionCells = <<Solid({1}, 1), Solid({2}, 2)>>
    /\ out.sets = <<<<Solid({1}, 1)>>, <<Solid({2}, 2)>>>>

(***************************************************************************)
(* Properties of Honeybee.ExportToHBJSON.                                  *)
(***************************************************************************)
\* C17: ExportToHBJSON returns True when the export succeeds and False otherwise;
\* when the file cannot be created (overwrite = False with the file already there
\* included) the call returns False, it does not raise.
C17_ExportReturnsBool ==
    op = "ExportToHBJSON" =>
        /\ ret \in {"True", "False"}
        /\ ret = "True" => out.file = Json(args.model)

\* overwrite = False and the file is there already: the call raises.
C17_Failure ==
    /\ op = "ExportToHBJSON"
    /\ ~args.overwrite
    /\ args.model.kind = "HBModel"
    /\ args.writable
    /\ args.file = <<"old">>
    /\ ret = "Raise"

\* C18: with overwrite = False a file already at the target path is never modified
\* (the export fails and the file holds what it held); with overwrite = True a file
\* already there is replaced by the JSON of the new model.
C18_OverwriteOrFail ==
    (op = "ExportToHBJSON" /\ args.file # "absent") =>
        /\ ~args.overwrite => (ret # "True" /\ out.file = args.file)
        /\ (args.overwrite /\ args.writable /\ args.model.kind = "HBModel")
              => (ret = "True" /\ out.file = Json(args.model))

C18_Witness ==
    /\ op = "ExportToHBJSON"
    /\ ~args.overwrite
    /\ args.writable
    /\ args.model = HBModel(2)
    /\ args.file = Json(HBModel(1))
    /\ out.file = Json(HBModel(1))

\* C19: the file written has a name ending in ".hbjson" whatever the letter case; a
\* path that ends so already is used unchanged, any other path gets ".hbjson"
\* appended, and normalising twice is normalising once.
C19_PathEndsInHbjson ==
    op = "ExportToHBJSON" =>
        LET path == args.path
            n == Len(path)
            ends == n >= 7 /\ LowerStr(SubSeq(path, n - 6, n)) = DotHbjson
        IN  /\ Len(out.path) >= 7
            /\ LowerStr(SubSeq(out.path, Len(out.path) - 6, Len(out.path))) = DotHbjson
            /\ ends => out.path = path
            /\ ~ends => out.path = path \o DotHbjson
            /\ HBJSONPath(out.path) = out.path

C19_Witness ==
    /\ op = "ExportToHBJSON"
    /\ args.path = <<"A", "b", ".", "H", "b", "J", "s", "o", "n">>
    /\ out.path = args.path
    /\ ret = "True"

(***************************************************************************)
(* Properties of Vector.Multiply.                                          *)
(***************************************************************************)
\* The product of two numbers of units, in units.
Product(a, b) == Frac(a * b, One)

IsProduct(vector, magnitude, result) ==
    /\ Len(result) = Len(vector)
    /\ \A i \in 1..Len(vector) : result[i] = Product(vector[i], magnitude)

\* C20: Vector.Multiply multiplies the vector by the magnitude: for every vector
\* whose length is at least the tolerance, component i of the result is
\* vector[i] * magnitude.
C20_MultiplyIsProduct ==
    (op = "Multiply" /\ out.oldMag >= args.tolerance) =>
        IsProduct(args.vector, args.magnitude, ret)

\* What the method computes instead: the vector of the same direction whose
\* length is the magnitude, which is the product for vectors of length one only.
C20_MultiplySetsLength ==
    (op = "Multiply" /\ out.oldMag >= args.tolerance) =>
        /\ Len(ret) = Len(args.vector)
        /\ \A i \in 1..Len(ret) :
             ret[i] = Frac(args.vector[i] * args.magnitude, out.oldMag)
        /\ (out.oldMag = One => IsProduct(args.vector, args.magnitude, ret))

C20_Failure ==
    /\ op = "Multiply"
    /\ args.vector = <<2 * One, 0, 0>>
    /\ args.magnitude = 3 * One
    /\ args.tolerance = DefaultTolerance
    /\ ret = <<Frac(3 * One, 1), Frac(0, 1), Frac(0, 1)>>
    /\ ~IsProduct(args.vector, args.magnitude, ret)

(***************************************************************************)
(* Properties of Vector.IsCollinear.                                       *)
(***************************************************************************)
\* Non-zero vectors on one line through the origin, whichever way they point.
Collinear(a, b) == CrossProduct(a, b) = <<0, 0, 0>>

\* C21: with the default tolerance Vector.IsCollinear returns True for every pair
\* of collinear non-zero vectors, those pointing in opposite directions included,
\* and False for every other pair.
C21_CollinearIffOnOneLine ==
    (op = "IsCollinear" /\ args.tolerance = 10) =>
        (ret <=> Collinear(args.vectorA, args.vectorB))

\* What the method computes: True exactly for the pairs pointing the same way.
C21_TrueIffSameDirection ==
    (op = "IsCollinear" /\ args.tolerance = 10) =>
        (ret <=> (Collinear(args.vectorA, args.vectorB)
                    /\ Dot(args.vectorA, args.vectorB) > 0))

C21_Failure ==
    /\ op = "IsCollinear"
    /\ args.tolerance = 10
    /\ args.vectorA = <<1, 0, 0>>
    /\ args.vectorB = <<-3, 0, 0>>
    /\ out.angle = 18000
    /\ ret = FALSE

(***************************************************************************)
(* Properties of Plotly.FigureByConfusionMatrix.                           *)
(***************************************************************************)
MatrixEntries(matrix) == UNION {Range(matrix[i]) : i \in 1..Len(matrix)}

\* C22: the colour scale runs from minValue to maxValue when they are given, 0
\* included, from the smallest value of the matrix when minValue is None and to
\* the largest value of the matrix when maxValue is None.
C22_ScaleBounds ==
    (op = "FigureByConfusionMatrix" /\ ret.kind = "Figure") =>
        /\ ret.zmin = IF args.minValue = <<>> THEN Min(MatrixEntries(args.matrix))
                      ELSE args.minValue[1]
        /\ ret.zmax = IF args.maxValue = <<>> THEN Max(MatrixEntries(args.matrix))
                      ELSE args.maxValue[1]

\* What the method computes: without minValue the scale starts at 0, and a
\* maxValue of 0 is taken as no maxValue.
C22_ScaleFromZero ==
    (op = "FigureByConfusionMatrix" /\ ret.kind = "Figure") =>
        /\ ret.zmin = IF args.minValue = <<>> THEN 0 ELSE args.minValue[1]
        /\ ret.zmax = IF args.maxValue \in {<<>>, <<0>>}
                      THEN Max(MatrixEntries(args.matrix)) ELSE args.maxValue[1]

C22_Failure ==
    /\ op = "FigureByConfusionMatrix"
    /\ args.matrix = <<<<2, 2>>, <<2, 2>>>>
    /\ args.minValue = <<>>
    /\ args.maxValue = <<>>
    /\ ret.kind = "Figure"
    /\ ret.zmin = 0
    /\ ret.zmax = 2

(***************************************************************************)
(* Properties of Plotly.DataByTopology.                                    *)
(***************************************************************************)
\* The text of a trace whose elements are labelled from their dictionaries.
LabelsFrom(dicts, labelKey, groupKey) ==
    [m \in 1..Len(dicts) |-> LabelOf(ValueAtKey(dicts[m], labelKey),
                                     ValueAtKey(dicts[m], groupKey))]

\* C23: when an edge label key or an edge group key is given, every edge of the
\* edge trace carries the label taken from its own dictionary, and the group
\* indices colour the trace when the edges fall in two groups or more, as for
\* vertices.
C23_EdgesLabelledFromDictionaries ==
    (/\ op = "DataByTopology"
     /\ ret.kind = "Data"
     /\ (args.edgeLabelKey # "None" \/ args.edgeGroupKey # "None")) =>
        LET dicts == args.topology.edgeDicts
            groupList == [m \in 1..Len(dicts) |->
                            GroupIndex(args.edgeGroups,
                                       ValueAtKey(dicts[m], args.edgeGroupKey))]
        IN  /\ ret.edges.text = LabelsFrom(dicts, args.edgeLabelKey, args.edgeGroupKey)
            /\ Cardinality(Range(groupList)) >= 2 =>
                 ret.edges.color = [kind |-> "groups", value |-> groupList]

\* The same for vertices, which the method does label from their dictionaries.
C23_VerticesLabelledFromDictionaries ==
    (/\ op = "DataByTopology"
     /\ ret.kind = "Data"
     /\ args.vertexLabelKey # "None") =>
        ret.vertices.text = LabelsFrom(args.topology.vertexDicts, args.vertexLabelKey,
                                       args.vertexGroupKey)

\* What the method does with edges: no label and the plain colour, whatever the keys.
C23_EdgesNeverLabelled ==
    (op = "DataByTopology" /\ ret.kind = "Data") =>
        ret.edges = [text |-> <<>>, color |-> [kind |-> "color", value |-> "black"]]

C23_Failure ==
    /\ op = "DataByTopology"
    /\ ret.kind = "Data"
    /\ args.edgeLabelKey = "label"
    /\ args.edgeGroupKey = "group"
    /\ args.edgeGroups = <<"g1", "g2">>
    /\ args.topology.edgeDicts = <<[label |-> "a", group |-> "g1"],
                                   [label |-> "b", group |-> "g2"]>>
    /\ args.vertexLabelKey = "label"
    /\ ret.vertices.text = <<<<"a", "g1">>, <<"b", "g2">>>>
    /\ ret.vertices.color.kind = "groups"
    /\ ret.edges.text = <<>>
    /\ ret.edges.color.kind = "color"

(***************************************************************************)
(* Properties of the bridging of one matched edge pair in Cell.ByWires.    *)
(***************************************************************************)
\* The call bridges the single pair (e1, e2) and the kernel rejects no face.
OnePair == op = "BridgeEdges" /\ Len(args.w1_edges) = 1 /\ args.ff = {}

StartToStart == <<args.w1_edges[1][1], args.w2_edges[1][1]>>
EndToEnd == <<args.w1_edges[1][2], args.w2_edges[1][2]>>
Diagonal == <<args.w1_edges[1][1], args.w2_edges[1][2]>>

\* The kernel rejects an edge between coincident vertices.
Degenerate(e) == e[1] = e[2]

\* The faces emitted are the one triangle on e1, e2 and the side edge given.
OneTriangleOn(side) ==
    /\ ret = "ok"
    /\ Len(out.faces) = 1
    /\ Len(out.faces[1].edges) = 3
    /\ Range(out.faces[1].edges) = {args.w1_edges[1], args.w2_edges[1], side}

\* C24: a matched pair with exactly one side edge rejected by the kernel gives
\* exactly one triangular face, triangulated or not: on e1, e2 and the end-to-end
\* edge when start-to-start is rejected, on e1, e2 and the start-to-start edge
\* when end-to-end is rejected.
C24_OneSideRejectedOneTriangle ==
    OnePair =>
        /\ (Degenerate(StartToStart) /\ ~Degenerate(EndToEnd)) => OneTriangleOn(EndToEnd)
        /\ (Degenerate(EndToEnd) /\ ~Degenerate(StartToStart)) => OneTriangleOn(StartToStart)

\* What the method does: the triangle is emitted untriangulated, and triangulated
\* when the rejection is an exception; a side edge that comes back as a null handle
\* leaves the triangulated pair without a face.
C24_TriangleUnlessNullTriangulated ==
    (OnePair /\ Degenerate(StartToStart) # Degenerate(EndToEnd)) =>
        IF args.triangulate /\ args.ch = "null"
        THEN ret = "ok" /\ out.faces = <<>>
        ELSE OneTriangleOn(IF Degenerate(StartToStart) THEN EndToEnd ELSE StartToStart)

C24_Failure ==
    /\ OnePair
    /\ args.triangulate
    /\ args.ch = "null"
    /\ args.w1_edges = <<<<1, 2>>>>
    /\ args.w2_edges = <<<<1, 3>>>>
    /\ ret = "ok"
    /\ out.faces = <<>>

BothRejected(j) ==
    /\ args.w1_edges[j][1] = args.w2_edges[j][1]
    /\ args.w1_edges[j][2] = args.w2_edges[j][2]

\* C26: a matched pair with both side edges rejected adds no face and raises no
\* error, no face construction is attempted for it, and the pairs after it are
\* bridged as they would be without it.
C26_BothRejectedContributesNothing ==
    (op = "BridgeEdges" /\ BothRejected(1)) =>
        IF Len(args.w1_edges) = 1
        THEN ret = "ok" /\ out.faces = <<>> /\ out.n = 0
        ELSE LET rest == BridgeEdges(Loft(<<>>, 0, "ok"), Tail(args.w1_edges),
                                     Tail(args.w2_edges), 1, args.triangulate,
                                     args.ch, args.ff)
             IN  ret = rest.st /\ out.faces = rest.faces /\ out.n = rest.n

C26_Witness ==
    /\ op = "BridgeEdges"
    /\ args.triangulate
    /\ args.ch = "raise"
    /\ args.ff = {}
    /\ args.w1_edges = <<<<1, 2>>, <<2, 3>>>>
    /\ args.w2_edges = <<<<1, 2>>, <<3, 4>>>>
    /\ ret = "ok"
    /\ Len(out.faces) = 2

EvenlyCut(planes, k, s) ==
    LET start == Min(Coord(out.pre, k))
        L == Extent(out.pre, k)
    IN  /\ Len(planes) = s - 1
        /\ \A i \in 1..Len(planes) :
             /\ planes[i] = <<start * s + L * i, s>>
             /\ start * s < planes[i][1]
             /\ planes[i][1] < (start + L) * s

\* C28: a primitive of s segments along an axis of extent L has exactly s - 1
\* cutting planes for the axis, the i-th at i*L/s from the start of the shape
\* along the axis: all strictly inside the shape, and none when s = 1.
C28_PlanesEvenlySpaced ==
    BuiltAtVertex =>
        /\ op \in {"Cone", "Cylinder"} => EvenlyCut(out.planes.w, 3, args.vSides)
        /\ op \in {"Prism", "Box"} =>
             /\ EvenlyCut(out.planes.u, 1, args.sides[1])
             /\ EvenlyCut(out.planes.v, 2, args.sides[2])
             /\ EvenlyCut(out.planes.w, 3, args.sides[3])

C28_Witness ==
    /\ BuiltAtVertex
    /\ op = "Prism"
    /\ args.origin = Vertex(1, -2, 3)
    /\ args.placement = "center"
    /\ args.height = 2
    /\ args.sides = <<2, 1, 3>>
    /\ Len(out.planes.u) = 1 /\ out.planes.v = <<>>
    /\ out.planes.w = <<<<4 * 3 + 4, 3>>, <<4 * 3 + 8, 3>>>>

(***************************************************************************)
(* The precedence of the tests of Cell.Decompose.                          *)
(***************************************************************************)
\* The list a face belongs to: vertical first, then up-facing (bottom when its
\* centroid is within the tolerance of zMin, top otherwise), then down-facing (top
\* when its centroid is within the tolerance of zMax, bottom otherwise), else
\* inclined; the tilt is taken without its sign.
ListOf(face, faces, tiltAngle, tolerance) ==
    LET ang == Angle(face.normal, Up)
        tilt == IF tiltAngle < 0 THEN -tiltAngle ELSE tiltAngle
        zs == {faces[i].z : i \in 1..Len(faces)}
        within(a, b) == a - b < tolerance /\ b - a < tolerance
    IN  CASE ang - 9000 < tilt /\ 9000 - ang < tilt -> "vertical"
          [] ang < tilt /\ ~(ang - 9000 < tilt /\ 9000 - ang < tilt) ->
               IF within(face.z, Min(zs)) THEN "bottomHorizontal" ELSE "topHorizontal"
          [] 18000 - ang < tilt /\ ~(ang < tilt)
                /\ ~(ang - 9000 < tilt /\ 9000 - ang < tilt) ->
               IF within(face.z, Max(zs)) THEN "topHorizontal" ELSE "bottomHorizontal"
          [] OTHER -> "inclined"

ListNamed(name) ==
    CASE name = "vertical" -> out.verticalFaces
      [] name = "topHorizontal" -> out.topHorizontalFaces
      [] name = "bottomHorizontal" -> out.bottomHorizontalFaces
      [] name = "inclined" -> out.inclinedFaces

\* C29: Decompose tests a face for vertical first, then up-facing, then
\* down-facing, else it is inclined; an up-facing face is bottom-horizontal iff its
\* centroid is within the tolerance of zMin, a down-facing face top-horizontal iff
\* its centroid is within the tolerance of zMax; the sign of tiltAngle is ignored
\* and with tiltAngle = 0 every face is inclined.
C29_Precedence ==
    (op = "Decompose" /\ ret = "Dict") =>
        LET faces == args.cell.faces
        IN  /\ \A i \in 1..Len(faces) :
                 \A name \in {"vertical", "topHorizontal", "bottomHorizontal", "inclined"} :
                    i \in Range(ListNamed(name))
                        <=> name = ListOf(faces[i], faces, args.tiltAngle, args.tolerance)
            /\ out = Decompose(args.cell, -args.tiltAngle, args.tolerance).d
            /\ args.tiltAngle = 0 => Len(out.inclinedFaces) = Len(faces)

\* A tilt of 100 degrees: the faces looking straight up and straight down pass the
\* vertical test, which comes first, and are listed as vertical.
C29_Witness ==
    /\ op = "Decompose"
    /\ ret = "Dict"
    /\ args.cell = UnitBox
    /\ args.tiltAngle = 10000
    /\ args.tolerance = 1
    /\ out.verticalFaces = <<1, 2, 3, 4, 5, 6>>
    /\ out.topHorizontalFaces = <<>>
    /\ out.bottomHorizontalFaces = <<>>

====
